---- MODULE Spec2Model ----
(***************************************************************************)
(* A model of the wgpu-path-tracing host and kernel control logic:         *)
(*   - buildBVH and its helpers           (src/renderer/bvh.ts)            *)
(*   - sortArrayPartially                 (src/utils/arr.ts)               *)
(*   - traverseBVH                        (src/shader/pt.wgsl)             *)
(*   - the Renderer's frame loop          (src/renderer/renderer.ts)       *)
(* Array indices and node indices keep the source's 0-based values; TLA+   *)
(* sequences are 1-based, so element i of an array a is a[i + 1].          *)
(***************************************************************************)
EXTENDS Integers, Sequences, FiniteSets, TLC

VARIABLES
    input,        \* buildBVH: the triangle list as passed in
    triangles,    \* buildBVH: the triangle array, reordered in place
    options,      \* buildBVH: [maxTrianglesPerLeaf, numOfBins]
    nodes,        \* buildBVH: the node array
    workQueue,    \* buildBVH: the stack of build tasks
    iterations,   \* buildBVH: iterations of the while loop so far
    pcBuild,      \* "build" while the loop runs, "built" once it has returned
    stack,        \* traverseBVH: var stack: array<u32, 64>
    stackPtr,     \* traverseBVH: var stackPtr: u32
    pcTraverse,   \* "idle", "loop" inside the while loop, "done" after it
    popped,       \* traverseBVH: the node indices popped so far, in order
    stackOverflow, \* traverseBVH: the stack was written at or beyond its capacity
    ray,          \* traverseBVH: the ray, by what its intersection tests return
    closest,      \* traverseBVH: closest.t
    hasHit,       \* traverseBVH: var hasHit
    oobPolicy,    \* what the GPU does with an access out of bounds, once one is made
    renderer,     \* Renderer: frameIndex, animationFrameId, onUpdateTasks, outputBuffer
    controller,   \* Controller: isKeyPressed, mouseMovement
    browser,      \* the event loop: animation-frame callbacks and model loads pending
    observer,     \* what the GPU queue has been handed: the last dispatch, per-tick counts
    pcRender,     \* "setup" until setupRenderer has resolved, then "running"
    scene,        \* prepareScene: materials of the triangles, the light list
    dispatch,     \* one dispatch of the kernel: its grid and the buffer writes
    rng,          \* the kernel's rngState and what rand() returned
    path,         \* trace: its loop position and what it has done so far
    lobe,         \* sampleBSDF: the material, the draw and the lobe taken
    worker,       \* the scene worker: the request in hand, the messages posted
    sorter        \* one call of sortArrayPartially: its arguments and outcome

bvhVars == <<input, triangles, options, nodes, workQueue, iterations, pcBuild>>

traverseVars ==
    <<stack, stackPtr, pcTraverse, popped, stackOverflow, ray, closest, hasHit, oobPolicy>>

renderVars == <<renderer, controller, browser, observer, pcRender>>

kernelVars == <<scene, dispatch, rng, path, lobe>>

hostVars == <<worker, sorter>>

vars == <<bvhVars, traverseVars, renderVars, kernelVars, hostVars>>

----------------------------------------------------------------------------
(* Bounds of the model *)

\* longest triangle list drawn for the exhaustive build
MaxTris == 5
\* the build loop is not followed beyond this many nodes
MaxNodes == 12
\* triangles of the left-deep scene
DeepTris == 66
\* longest palette list that is also traversed
MaxTraverseTris == 3
\* the traversal loop is not followed beyond this many iterations
MaxLoops == 140

----------------------------------------------------------------------------
(* Numbers *)

\* stands for the IEEE infinity that computeAABB and findBestSplit start from
Infinity == 1000000

TRAVERSAL_COST == 1

INTERSECTION_TEST_COST == 2

MinOf(S) == IF S = {} THEN Infinity ELSE CHOOSE m \in S : \A y \in S : m <= y

MaxOf(S) == IF S = {} THEN -Infinity ELSE CHOOSE m \in S : \A y \in S : m >= y

----------------------------------------------------------------------------
(* Triangles.  A triangle is [id, v], v = <<v0, v1, v2>>, each a point     *)
(* <<x, y, z>>; id is the object's identity (its place in the input).      *)

Tri(k, a, b, c) == [id |-> k, v |-> <<a, b, c>>]

\* arr.slice(startIndex, endIndex)
Slice(arr, startIndex, endIndex) == SubSeq(arr, startIndex + 1, endIndex)

\* a faulty computeAABB: the third vertex of each triangle is left out
computeAABBSkipsV2(tris) ==
    LET pts == {tris[i].v[j] : i \in DOMAIN tris, j \in 1..2}
    IN  [min |-> [a \in 1..3 |-> MinOf({p[a] : p \in pts})],
         max |-> [a \in 1..3 |-> MaxOf({p[a] : p \in pts})]]

\* computeAABB: fold of min/max over the three vertices of every triangle
computeAABB(tris) ==
    LET pts == {tris[i].v[j] : i \in DOMAIN tris, j \in 1..3}
    IN  [min |-> [a \in 1..3 |-> MinOf({p[a] : p \in pts})],
         max |-> [a \in 1..3 |-> MaxOf({p[a] : p \in pts})]]

\* AABB.getSurfaceArea
getSurfaceArea(aabb) ==
    LET dx == aabb.max[1] - aabb.min[1]
        dy == aabb.max[2] - aabb.min[2]
        dz == aabb.max[3] - aabb.min[3]
    IN  2 * (dx * dy + dy * dz + dz * dx)

\* AABB.getMaxExtentAxis
getMaxExtentAxis(aabb) ==
    LET axisXLength == aabb.max[1] - aabb.min[1]
        axisYLength == aabb.max[2] - aabb.min[2]
        axisZLength == aabb.max[3] - aabb.min[3]
    IN  IF axisXLength > axisYLength /\ axisXLength > axisZLength THEN 0
        ELSE IF axisYLength > axisXLength /\ axisYLength > axisZLength THEN 1
        ELSE 2

\* getTriangleCenter, times 3: the source divides the sum by 3, and only the
\* sign of a difference of two centers is ever used
getTriangleCenter(triangle, axis) ==
    triangle.v[1][axis + 1] + triangle.v[2][axis + 1] + triangle.v[3][axis + 1]

compareTriangles(a, b, axis) ==
    getTriangleCenter(a, axis) - getTriangleCenter(b, axis)

----------------------------------------------------------------------------
(* sortArrayPartially (iterative quicksort, Lomuto partition).  compare is *)
(* a function on pairs of elements.                                        *)

\* a faulty Swap: the second assignment of the swap is lost
SwapLosesElement(arr, i, j) == [arr EXCEPT ![i + 1] = arr[j + 1]]

Swap(arr, i, j) == [arr EXCEPT ![i + 1] = arr[j + 1], ![j + 1] = arr[i + 1]]

RECURSIVE PartitionLoop(_, _, _, _, _, _)
\* the for loop of partition: st = [arr, i]
PartitionLoop(arr, i, j, high, pivot, compare) ==
    IF j >= high THEN [arr |-> arr, i |-> i]
    ELSE IF compare[<<arr[j + 1], pivot>>] <= 0
         THEN PartitionLoop(Swap(arr, i + 1, j), i + 1, j + 1, high, pivot, compare)
         ELSE PartitionLoop(arr, i, j + 1, high, pivot, compare)

\* partition(low, high): [arr, pivotIndex]
Partition(arr, low, high, compare) ==
    LET r == PartitionLoop(arr, low - 1, low, high, arr[high + 1], compare)
    IN  [arr |-> Swap(r.arr, r.i + 1, high), pivotIndex |-> r.i + 1]

RECURSIVE SortLoop(_, _, _)
\* the while loop over the explicit stack of (low, high) pairs
SortLoop(arr, lohi, compare) ==
    IF lohi = <<>> THEN arr
    ELSE
        LET high == lohi[Len(lohi)]
            low  == lohi[Len(lohi) - 1]
            rest == SubSeq(lohi, 1, Len(lohi) - 2)
        IN  IF low < high
            THEN LET p   == Partition(arr, low, high, compare)
                     st1 == IF p.pivotIndex - 1 > low
                            THEN rest \o <<low, p.pivotIndex - 1>> ELSE rest
                     st2 == IF p.pivotIndex + 1 < high
                            THEN st1 \o <<p.pivotIndex + 1, high>> ELSE st1
                 IN  SortLoop(p.arr, st2, compare)
            ELSE SortLoop(arr, rest, compare)

\* a faulty index check: an empty range is let through
InvalidIndicesAllowsEmpty(arr, start, end) == start < 0 \/ end > Len(arr) \/ start > end

\* the index check that makes sortArrayPartially throw
InvalidIndices(arr, start, end) == start < 0 \/ end > Len(arr) \/ start >= end

sortArrayPartially(arr, start, end, compare) ==
    SortLoop(arr, <<start, end - 1>>, compare)

----------------------------------------------------------------------------
(* findBestSplit and computeSAH *)

computeSAH(tris, startIndex, endIndex, axis, splitIndex) ==
    LET leftAABB  == computeAABB(Slice(tris, startIndex, splitIndex))
        rightAABB == computeAABB(Slice(tris, splitIndex, endIndex))
        leftCost  == getSurfaceArea(leftAABB) * (splitIndex - startIndex)
        rightCost == getSurfaceArea(rightAABB) * (endIndex - splitIndex)
    IN  TRAVERSAL_COST + (leftCost + rightCost) * INTERSECTION_TEST_COST

\* the candidate of bin i: startIndex + floor(numTriangles * (i / numOfBins))
SplitCandidate(startIndex, endIndex, i, numOfBins) ==
    startIndex + ((endIndex - startIndex) * i) \div numOfBins

\* the split indices the for loop of findBestSplit costs: those of the bins
\* 1..numOfBins-1 that fall on neither end of the range
SplitCandidates(startIndex, endIndex, numOfBins) ==
    {SplitCandidate(startIndex, endIndex, i, numOfBins) : i \in 1..(numOfBins - 1)}
        \ {startIndex, endIndex}

\* the loop keeps the first candidate of least cost (cost < minCost is strict
\* and the candidates come in ascending order); with no candidate it returns
\* startIndex
findBestSplit(tris, startIndex, endIndex, axis, numOfBins) ==
    LET costed == {<<computeSAH(tris, startIndex, endIndex, axis, splitIndex), splitIndex>> :
                      splitIndex \in SplitCandidates(startIndex, endIndex, numOfBins)}
        usable == {c \in costed : c[1] < Infinity}
    IN  IF usable = {} THEN startIndex
        ELSE (CHOOSE c \in usable :
                 \A d \in usable : c[1] < d[1] \/ (c[1] = d[1] /\ c[2] <= d[2]))[2]

----------------------------------------------------------------------------
(* traverseBVH state *)

StackCapacity == 64

----------------------------------------------------------------------------
(* buildBVH *)

Node(aabb, left, right, triangleOffset, triangleCount) ==
    [aabb |-> aabb, left |-> left, right |-> right,
     triangleOffset |-> triangleOffset, triangleCount |-> triangleCount]

Task(nodeIndex, startIndex, endIndex) ==
    [nodeIndex |-> nodeIndex, startIndex |-> startIndex, endIndex |-> endIndex]

\* the state buildBVH is in when it reaches its while loop
BuildEntry(tris, opts) ==
    /\ input = tris
    /\ triangles = tris
    /\ options = opts
    /\ nodes = <<Node(computeAABB(tris), -1, -1, 0, Len(tris))>>
    /\ workQueue = <<Task(0, 0, Len(tris))>>
    /\ iterations = 0
    /\ pcBuild = "build"

\* a faulty MarkLeaf: the count is short of the last triangle
MarkLeafDropsLast(node, task) ==
    [node EXCEPT !.left = -1, !.right = -1,
                 !.triangleOffset = task.startIndex,
                 !.triangleCount = task.endIndex - task.startIndex - 1]

\* the node of a task whose range is small enough
MarkLeaf(node, task) ==
    [node EXCEPT !.left = -1, !.right = -1,
                 !.triangleOffset = task.startIndex,
                 !.triangleCount = task.endIndex - task.startIndex]

\* a faulty MarkInterior: the triangle count of the split node is kept
MarkInteriorKeepsCount(node, leftIndex, rightIndex) ==
    [node EXCEPT !.left = leftIndex, !.right = rightIndex]

\* a faulty MarkInterior: both children are the left slot
MarkInteriorOneChild(node, leftIndex, rightIndex) ==
    [node EXCEPT !.left = leftIndex, !.right = leftIndex,
                 !.triangleCount = 0, !.triangleOffset = 0]

\* the node of a task that was split: children at the two new slots
MarkInterior(node, leftIndex, rightIndex) ==
    [node EXCEPT !.left = leftIndex, !.right = rightIndex,
                 !.triangleCount = 0, !.triangleOffset = 0]

\* the two tasks pushed for the children
ChildTasks(task, bestSplit, leftIndex, rightIndex) ==
    <<Task(leftIndex, task.startIndex, bestSplit),
      Task(rightIndex, bestSplit, task.endIndex)>>

\* the sort of the task's range along the axis of largest extent
SortRange(tris, task) ==
    LET aabb      == computeAABB(Slice(tris, task.startIndex, task.endIndex))
        splitAxis == getMaxExtentAxis(aabb)
        elems     == {tris[k] : k \in (task.startIndex + 1)..task.endIndex}
        compare   == [p \in elems \X elems |-> compareTriangles(p[1], p[2], splitAxis)]
    IN  [axis |-> splitAxis,
         arr  |-> sortArrayPartially(tris, task.startIndex, task.endIndex, compare)]

\* the node count beyond which the build loop is not followed
NodeLimit == IF Len(input) > MaxTris THEN 2 * Len(input) + 2 ELSE MaxNodes

\* one iteration of the while loop
BuildStep ==
    /\ pcBuild = "build"
    /\ workQueue # <<>>
    /\ Len(nodes) + 2 <= NodeLimit
    /\ LET task         == workQueue[Len(workQueue)]
           rest         == SubSeq(workQueue, 1, Len(workQueue) - 1)
           numTriangles == task.endIndex - task.startIndex
       IN  IF numTriangles <= options.maxTrianglesPerLeaf
           THEN /\ nodes' = [nodes EXCEPT ![task.nodeIndex + 1] = MarkLeaf(@, task)]
                /\ workQueue' = rest
                /\ triangles' = triangles
                /\ pcBuild' = IF rest = <<>> THEN "built" ELSE "build"
           ELSE IF InvalidIndices(triangles, task.startIndex, task.endIndex)
           THEN /\ pcBuild' = "thrown"
                /\ UNCHANGED <<nodes, triangles>>
                /\ workQueue' = rest
           ELSE LET sorted     == SortRange(triangles, task)
                    bestSplit  == findBestSplit(sorted.arr, task.startIndex,
                                                task.endIndex, sorted.axis,
                                                options.numOfBins)
                    leftNode   == Node(computeAABB(Slice(sorted.arr, task.startIndex, bestSplit)),
                                       -1, -1, task.startIndex,
                                       bestSplit - task.startIndex)
                    rightNode  == Node(computeAABB(Slice(sorted.arr, bestSplit, task.endIndex)),
                                       -1, -1, bestSplit, task.endIndex - bestSplit)
                    leftIndex  == Len(nodes)
                    rightIndex == Len(nodes) + 1
                IN  /\ triangles' = sorted.arr
                    /\ nodes' = [nodes EXCEPT ![task.nodeIndex + 1] =
                                     MarkInterior(@, leftIndex, rightIndex)]
                                \o <<leftNode, rightNode>>
                    /\ workQueue' = rest \o ChildTasks(task, bestSplit, leftIndex, rightIndex)
                    /\ pcBuild' = "build"
    /\ iterations' = iterations + 1
    /\ UNCHANGED <<input, options>>
    /\ UNCHANGED traverseVars
    /\ UNCHANGED renderVars
    /\ UNCHANGED hostVars
    /\ UNCHANGED kernelVars

----------------------------------------------------------------------------
(* The exhaustive build: every triangle list of up to MaxTris triangles    *)
(* over a small palette, under every option setting of a small set.        *)

Palette ==
    << <<<<0, 0, 0>>, <<1, 0, 0>>, <<0, 1, 0>>>>,
       <<<<3, 0, 0>>, <<4, 0, 0>>, <<3, 2, 0>>>>,
       <<<<0, 5, 1>>, <<1, 5, 1>>, <<0, 7, 2>>>> >>

TriLists ==
    UNION {[1..n -> 1..Len(Palette)] : n \in 0..MaxTris}

MakeTris(choice) ==
    [k \in 1..Len(choice) |->
        Tri(k, Palette[choice[k]][1], Palette[choice[k]][2], Palette[choice[k]][3])]

OptionSets ==
    [maxTrianglesPerLeaf : {1, 2, 4}, numOfBins : {1, 2, 3, 12}]

NoRay == [t |-> <<>>, missed |-> {}]

\* no request has reached the worker, sortArrayPartially is not running
HostIdle ==
    /\ worker = [pc |-> "idle"]
    /\ sorter = [pc |-> "idle"]

\* prepareScene and the kernel's functions before they are called
KernelIdle ==
    /\ scene = [pc |-> "idle"]
    /\ dispatch = [pc |-> "idle"]
    /\ rng = [pc |-> "idle"]
    /\ path = [pc |-> "idle"]
    /\ lobe = [pc |-> "idle"]

\* traverseBVH before it is called
TraverseIdle ==
    /\ stack = [k \in 0..(StackCapacity - 1) |-> 0]
    /\ stackPtr = 0
    /\ pcTraverse = "idle"
    /\ popped = <<>>
    /\ stackOverflow = FALSE
    /\ ray = NoRay
    /\ closest = -1
    /\ hasHit = FALSE
    /\ oobPolicy = "unknown"

----------------------------------------------------------------------------
(* The Renderer as its constructor leaves it, before setupRenderer has     *)
(* loaded the first model.  A pixel value is an exact fraction             *)
(* <<numerator, denominator>>; one pixel stands for the buffer, since an   *)
(* invocation of the kernel reads and writes only its own pixel.           *)
(* browser.pendingLoads lists, in the order of the calls, the models whose *)
(* loadModel is awaiting the loader.                                       *)

null == -1

MAX_FRAMES == -1

Zero == <<0, 1>>

\* the model setupRenderer loads, and no scene at all
StartModel == "/models/lights.glb"

NoScene == "none"

\* the buffers createBuffers fills from sceneData; each is modelled by the
\* scene whose data it holds
SceneBuffers == {"trianglesBuffer", "materialsBuffer", "bvhBuffer", "lightsBuffer"}

NoBuffers == [b \in SceneBuffers |-> NoScene]

NoDispatch ==
    [frameIndex |-> null, sample |-> 0, result |-> Zero, twinResult |-> Zero,
     afterCamera |-> FALSE, afterResize |-> FALSE, freshBuffer |-> FALSE,
     twinDiffered |-> FALSE, afterFrames |-> FALSE,
     bound |-> NoBuffers, destroyedBuffer |-> FALSE, afterDestroy |-> FALSE]

RendererConstructed ==
    /\ renderer = [frameIndex |-> 0, animationFrameId |-> null,
                   onUpdateTasks |-> 0, outputBuffer |-> Zero, cameraFrameIndex |-> 0,
                   sceneData |-> NoScene, sceneBuffers |-> NoBuffers,
                   computeBindGroup |-> NoBuffers, buffersDestroyed |-> FALSE]
    /\ controller = [isKeyPressed |-> {}, mouseMovement |-> 0]
    /\ browser = [rafPending |-> {}, rafBatch |-> {}, pendingLoads |-> <<StartModel>>]
    /\ observer = [lastDispatch |-> NoDispatch, twinBuffer |-> Zero,
                   cameraMutated |-> FALSE, resized |-> FALSE, bufferFresh |-> FALSE,
                   runCount |-> 0, runSum |-> 0, runFixed |-> FALSE,
                   framesThisTick |-> 0, uncaught |-> FALSE,
                   lastRequested |-> StartModel, destroyCalled |-> FALSE]
    /\ pcRender = "setup"

----------------------------------------------------------------------------
(* traverseBVH.  A ray enters only through its two intersection tests,   *)
(* both pure functions of the ray: it is the record of                     *)
(*   t       the distance at which it hits each triangle (0: no hit)       *)
(*   missed  the boxes rayAABBIntersect rejects                            *)
(* A box that holds a triangle the ray hits is never in missed.  The       *)
(* empty box (min = Infinity, max = -Infinity) divides infinities: the     *)
(* slab test passes it for every ray under IEEE arithmetic, and WGSL       *)
(* leaves the result open, so a ray may pass it or miss it.                *)
(* An access out of bounds follows the policy of the GPU at hand:          *)
(*   "clamp"    the index is clamped to the last element                   *)
(*   "discard"  a write is dropped; a read of the stack yields its first   *)
(*              element, a read of the node buffer a zero-filled node      *)

MaxHitT == 2

Policies == {"clamp", "discard"}

ZeroBox == [min |-> <<0, 0, 0>>, max |-> <<0, 0, 0>>]

\* the box holds the three vertices of the triangle
Contains(aabb, triangle) ==
    \A v \in 1..3 : \A axis \in 1..3 :
        /\ aabb.min[axis] <= triangle.v[v][axis]
        /\ triangle.v[v][axis] <= aabb.max[axis]

\* rayTriangleIntersect(ray, triangle).t
rayTriangleIntersect(r, triangle) ==
    IF r.t[triangle.id] > 0 THEN r.t[triangle.id] ELSE -1

rayAABBIntersect(r, aabb) == aabb \notin r.missed

\* the boxes a traversal of the tree can test; the zero-filled node is read
\* only through the sentinel children of the empty tree
Boxes ==
    {nodes[i].aabb : i \in DOMAIN nodes}
        \cup (IF Len(input) = 0 THEN {ZeroBox} ELSE {})

\* the boxes free to be missed by a ray with these hit distances
FreeBoxes(t) ==
    {box \in Boxes : \A k \in DOMAIN input : t[k] > 0 => ~Contains(box, input[k])}

\* every ray of a small scene; of a large scene, the rays that pass through
\* every box and hit one triangle
Rays ==
    IF Len(input) <= MaxTraverseTris
    THEN UNION {{[t |-> t, missed |-> m] : m \in SUBSET FreeBoxes(t)} :
                   t \in [DOMAIN input -> 0..MaxHitT]}
    ELSE {[t |-> [k \in DOMAIN input |-> IF k = hit THEN 1 ELSE 0], missed |-> {}] :
             hit \in DOMAIN input}

\* bvhNodes[nodeIdx]; a sentinel index reads outside the buffer
NodeRead(nodeIdx, policy) ==
    IF nodeIdx \in 0..(Len(nodes) - 1) THEN nodes[nodeIdx + 1]
    ELSE IF policy = "clamp" THEN nodes[Len(nodes)]
    ELSE Node(ZeroBox, 0, 0, 0, 0)

\* stack[index] = value
StackWrite(stk, index, value, policy) ==
    IF index < StackCapacity THEN [stk EXCEPT ![index] = value]
    ELSE IF policy = "clamp" THEN [stk EXCEPT ![StackCapacity - 1] = value]
    ELSE stk

\* stack[index]
StackRead(stk, index, policy) ==
    IF index < StackCapacity THEN stk[index]
    ELSE IF policy = "clamp" THEN stk[StackCapacity - 1]
    ELSE stk[0]

\* lines 849-858: the root is pushed
TraverseStart ==
    /\ pcBuild = "built"
    /\ pcTraverse = "idle"
    /\ ray' \in Rays
    /\ stack' = [stack EXCEPT ![0] = 0]
    /\ stackPtr' = 1
    /\ pcTraverse' = "loop"
    /\ closest' = -1
    /\ hasHit' = FALSE
    /\ UNCHANGED <<popped, stackOverflow, oobPolicy>>
    /\ UNCHANGED bvhVars
    /\ UNCHANGED renderVars
    /\ UNCHANGED hostVars
    /\ UNCHANGED kernelVars

\* the stack after the node's children are pushed at sp and sp + 1
PushChildren(stk, sp, node, policy) ==
    StackWrite(StackWrite(stk, sp, node.right, policy), sp + 1, node.left, policy)

\* lines 871-878: the triangles of a leaf are tested in order
RECURSIVE LeafLoop(_, _, _)
LeafLoop(node, i, best) ==
    IF i >= node.triangleCount THEN best
    ELSE LET triIdx == node.triangleOffset + i
             hitT   == rayTriangleIntersect(ray, triangles[triIdx + 1])
         IN  LeafLoop(node, i + 1,
                      IF hitT > 0 /\ (hitT < best.t \/ ~best.hasHit)
                      THEN [t |-> hitT, hasHit |-> TRUE]
                      ELSE best)

\* one iteration of the while loop (lines 860-888)
TraverseStep ==
    /\ pcTraverse = "loop"
    /\ stackPtr > 0
    /\ Len(popped) < MaxLoops
    /\ \E policy \in (IF oobPolicy = "unknown" THEN Policies ELSE {oobPolicy}) :
          LET sp      == stackPtr - 1
              nodeIdx == StackRead(stack, sp, policy)
              node    == NodeRead(nodeIdx, policy)
              hit     == rayAABBIntersect(ray, node.aabb)
              pushes  == hit /\ ~(node.triangleCount > 0)
              best    == IF hit /\ node.triangleCount > 0
                         THEN LeafLoop(node, 0, [t |-> closest, hasHit |-> hasHit])
                         ELSE [t |-> closest, hasHit |-> hasHit]
              outside == \/ sp >= StackCapacity
                         \/ nodeIdx \notin 0..(Len(nodes) - 1)
                         \/ pushes /\ sp + 1 >= StackCapacity
          IN  /\ popped' = Append(popped, nodeIdx)
              /\ stack' = IF pushes THEN PushChildren(stack, sp, node, policy) ELSE stack
              /\ stackPtr' = IF pushes THEN sp + 2 ELSE sp
              /\ stackOverflow' = (stackOverflow \/ (pushes /\ sp + 1 >= StackCapacity))
              /\ closest' = best.t
              /\ hasHit' = best.hasHit
              /\ oobPolicy' = IF outside THEN policy ELSE oobPolicy
    /\ pcTraverse' = IF stackPtr' = 0 THEN "done" ELSE "loop"
    /\ UNCHANGED ray
    /\ UNCHANGED bvhVars
    /\ UNCHANGED renderVars
    /\ UNCHANGED hostVars
    /\ UNCHANGED kernelVars

\* the scene whose tree is a chain of left children: triangle 0 spans the
\* whole box, the others alternate between its two ends
DeepScene ==
    LET X == DeepTris + 10
    IN  [k \in 1..DeepTris |->
            IF k = 1 THEN Tri(k, <<0, 0, 0>>, <<X, 1, 0>>, <<0, 0, 0>>)
            ELSE IF k % 2 = 1 THEN Tri(k, <<0, 0, 0>>, <<X - 1, 1, 0>>, <<k + 2, 0, 0>>)
            ELSE Tri(k, <<1, 0, 0>>, <<X, 1, 0>>, <<k, 0, 0>>)]

InitTraverse ==
    /\ \/ BuildEntry(DeepScene, [maxTrianglesPerLeaf |-> 1, numOfBins |-> 128])
       \/ \E n \in 0..MaxTraverseTris : \E choice \in [1..n -> 1..Len(Palette)] :
          \E opts \in [maxTrianglesPerLeaf : {1, 4}, numOfBins : {2, 12}] :
             BuildEntry(MakeTris(choice), opts)
    /\ TraverseIdle
    /\ RendererConstructed
    /\ HostIdle
    /\ KernelIdle

NextTraverse == BuildStep \/ TraverseStart \/ TraverseStep

SpecTraverse == InitTraverse /\ [][NextTraverse]_vars

----------------------------------------------------------------------------
(* Claims about traverseBVH *)

\* C9: for every tree buildBVH returns and every ray, traverseBVH never
\* writes its 64-entry stack at an index >= 64, and the stack pointer never
\* exceeds the capacity.
C9_StackNeverOverflows ==
    ~stackOverflow /\ stackPtr <= StackCapacity

\* C10: for every ray and every valid tree, traverseBVH pops each node at
\* most once, so its loop runs at most as many times as there are nodes.
C10_EachNodePoppedOnce ==
    /\ \A i, j \in DOMAIN popped : i # j => popped[i] # popped[j]
    /\ Len(popped) <= Len(nodes)

\* the sentinel a leaf holds in left and right (0xffffffff once uploaded)
Sentinel == -1

\* C11: for the tree of the empty triangle list, a single leaf with
\* triangleCount = 0, traverseBVH reports no hit for every ray and never
\* pushes, pops or dereferences a sentinel child index.
C11_EmptyLeafIsMiss ==
    (pcBuild = "built" /\ Len(input) = 0) =>
        /\ ~hasHit
        /\ \A i \in DOMAIN popped : popped[i] # Sentinel
        /\ \A k \in 0..(stackPtr - 1) : k < StackCapacity => stack[k] # Sentinel

\* the linear scan over every triangle: the smallest positive distance, or
\* no hit
LinearScan(r) ==
    LET hits == {r.t[k] : k \in DOMAIN r.t} \ {0}
    IN  IF hits = {} THEN -1 ELSE MinOf(hits)

----------------------------------------------------------------------------
(* Claims about buildBVH *)

IsLeaf(node) == node.triangleCount > 0

\* C1: for every non-empty triangle list, after buildBVH returns, the leaf
\* ranges [triangleOffset, triangleOffset + triangleCount) are pairwise
\* disjoint and cover exactly [0, N), and the reordered array is a
\* permutation of the input.
C1_LeavesPartitionPermutation ==
    (pcBuild = "built" /\ Len(input) >= 1) =>
        LET N      == Len(input)
            leaves == {i \in DOMAIN nodes : IsLeaf(nodes[i])}
            covers(i, t) == /\ nodes[i].triangleOffset <= t
                            /\ t < nodes[i].triangleOffset + nodes[i].triangleCount
        IN  /\ \A t \in 0..(N - 1) : Cardinality({i \in leaves : covers(i, t)}) = 1
            /\ \A i \in leaves : /\ nodes[i].triangleOffset >= 0
                                  /\ nodes[i].triangleOffset + nodes[i].triangleCount <= N
            /\ Len(triangles) = N
            /\ \A k \in 1..N : Cardinality({j \in 1..N : triangles[j] = input[k]}) = 1

C1_Witness ==
    /\ pcBuild = "built"
    /\ Len(nodes) >= 3
    /\ triangles # input

\* C2: for every non-empty triangle list, every node of the returned array
\* is either a leaf (triangleCount > 0, both children the sentinel) or an
\* interior node (triangleCount = 0, both children valid node indices).
C2_LeafXorInterior ==
    (pcBuild = "built" /\ Len(input) >= 1) =>
        \A i \in DOMAIN nodes :
            LET n        == nodes[i]
                leaf     == n.triangleCount > 0 /\ n.left = -1 /\ n.right = -1
                interior == /\ n.triangleCount = 0
                            /\ n.left \in 0..(Len(nodes) - 1)
                            /\ n.right \in 0..(Len(nodes) - 1)
            IN  (leaf \/ interior) /\ ~(leaf /\ interior)

C2_Witness ==
    /\ pcBuild = "built"
    /\ Len(nodes) >= 5
    /\ \E i \in DOMAIN nodes : nodes[i].triangleCount = 0 /\ nodes[i].left > 0
    /\ \E i \in DOMAIN nodes : nodes[i].triangleCount > 0 /\ nodes[i].left = -1

\* what a task still costs the loop: 2 * size - 1 iterations when every
\* split yields two non-empty halves, and at least one
TaskWeight(task) ==
    LET w == 2 * (task.endIndex - task.startIndex) - 1
    IN  IF w < 1 THEN 1 ELSE w

RECURSIVE QueueWeight(_)
QueueWeight(queue) ==
    IF queue = <<>> THEN 0
    ELSE TaskWeight(queue[1]) + QueueWeight(Tail(queue))

\* C8: buildBVH terminates for every finite triangle list and every option
\* setting with maxTrianglesPerLeaf >= 1 and numOfBins >= 1: a range that
\* cannot be split into two non-empty sub-ranges is not re-queued, so every
\* iteration of the loop strictly lowers the work that is left.
C8_BuildTerminates ==
    [][workQueue' # workQueue => QueueWeight(workQueue') < QueueWeight(workQueue)]_vars

\* the triangle indices beneath a node: a leaf's own range, an interior
\* node's children's
RECURSIVE NodeRange(_)
NodeRange(i) ==
    LET n == nodes[i + 1]
    IN  IF n.left = Sentinel
        THEN n.triangleOffset..(n.triangleOffset + n.triangleCount - 1)
        ELSE NodeRange(n.left) \cup NodeRange(n.right)

\* the box is the component-wise min and max over the vertices of the
\* triangles: it bounds every vertex and every face of it is touched
IsTight(aabb, tris) ==
    LET pts == {t.v[j] : t \in tris, j \in 1..3}
    IN  IF pts = {}
        THEN /\ \A a \in 1..3 : aabb.min[a] = Infinity /\ aabb.max[a] = -Infinity
        ELSE \A a \in 1..3 :
                /\ \A p \in pts : aabb.min[a] <= p[a] /\ p[a] <= aabb.max[a]
                /\ \E p \in pts : aabb.min[a] = p[a]
                /\ \E p \in pts : aabb.max[a] = p[a]

\* C13: for every node buildBVH returns, the node's AABB is the exact
\* component-wise min/max over the vertices of the triangles in the node's
\* range, neither too small nor padded; the root's is that of the whole set.
C13_BoxesAreTight ==
    pcBuild = "built" =>
        /\ \A i \in 0..(Len(nodes) - 1) :
              IsTight(nodes[i + 1].aabb, {triangles[k + 1] : k \in NodeRange(i)})
        /\ IsTight(nodes[1].aabb, {input[k] : k \in DOMAIN input})

C13_Witness ==
    /\ pcBuild = "built"
    /\ Len(nodes) >= 5
    /\ \E i \in DOMAIN nodes : nodes[i].aabb # nodes[1].aabb /\ nodes[i].triangleCount >= 2

\* C14: for every triangle list of N <= maxTrianglesPerLeaf triangles
\* (default 4), N = 0 included, buildBVH returns exactly one node, with
\* triangleOffset = 0, triangleCount = N and both children the sentinel,
\* after one iteration of its loop and without throwing.
C14_SmallListIsOneLeaf ==
    Len(input) <= options.maxTrianglesPerLeaf =>
        /\ pcBuild # "thrown"
        /\ iterations <= 1
        /\ pcBuild = "build" => (iterations = 0 /\ workQueue = <<Task(0, 0, Len(input))>>)
        /\ pcBuild = "built" =>
              /\ Len(nodes) = 1
              /\ nodes[1].triangleOffset = 0
              /\ nodes[1].triangleCount = Len(input)
              /\ nodes[1].left = Sentinel
              /\ nodes[1].right = Sentinel

C14_Witness ==
    /\ pcBuild = "built"
    /\ Len(input) = 4
    /\ options = [maxTrianglesPerLeaf |-> 4, numOfBins |-> 12]
    /\ Len(nodes) = 1

\* C24: whenever buildBVH splits a node with range [start, end), under
\* every option setting, the children get [start, split) and [split, end)
\* with start < split < end: both are non-empty and smaller than the parent.
C24_SplitIsProper ==
    [][Len(nodes') = Len(nodes) + 2 =>
          LET task == workQueue[Len(workQueue)]
              leftTask == workQueue'[Len(workQueue') - 1]
              rightTask == workQueue'[Len(workQueue')]
          IN /\ leftTask.startIndex = task.startIndex
             /\ leftTask.endIndex = rightTask.startIndex
             /\ rightTask.endIndex = task.endIndex
             /\ task.startIndex < leftTask.endIndex
             /\ leftTask.endIndex < task.endIndex]_vars

\* C25: in the array buildBVH returns the root is node 0 and, for every
\* interior node i, both child indices are greater than i and distinct, and
\* every node but the root is the child of exactly one parent.
C25_ChildrenFollowParent ==
    pcBuild = "built" =>
        LET index == 0..(Len(nodes) - 1)
            interior == {i \in index : nodes[i + 1].left # Sentinel \/ nodes[i + 1].right # Sentinel}
            ParentsOf(c) == {i \in interior : nodes[i + 1].left = c \/ nodes[i + 1].right = c}
        IN /\ Len(nodes) >= 1
           /\ ParentsOf(0) = {}
           /\ \A i \in interior :
                 /\ nodes[i + 1].left \in index /\ nodes[i + 1].right \in index
                 /\ nodes[i + 1].left > i /\ nodes[i + 1].right > i
                 /\ nodes[i + 1].left # nodes[i + 1].right
           /\ \A c \in index \ {0} : Cardinality(ParentsOf(c)) = 1

\* a returned tree of three levels
C25_Witness ==
    /\ pcBuild = "built"
    /\ Len(nodes) >= 7
    /\ \E i \in 1..(Len(nodes) - 1) : nodes[i + 1].left # Sentinel

InitBuild ==
    /\ \E choice \in TriLists, opts \in OptionSets : BuildEntry(MakeTris(choice), opts)
    /\ TraverseIdle
    /\ RendererConstructed
    /\ HostIdle
    /\ KernelIdle

NextBuild == BuildStep

SpecBuild == InitBuild /\ [][NextBuild]_vars

----------------------------------------------------------------------------
(* The frame loop of the Renderer.  A handler of the event loop runs to    *)
(* completion: each action below is one handler.  The handler's calls      *)
(* thread a record w through the methods they reach:                       *)
(*   w.r, w.c, w.b, w.o   the renderer, controller, browser and observer   *)
(*   w.samples            the radiance the kernel computes at the          *)
(*                        handler's dispatches, in order                   *)
(*   w.depth, w.thrown    the nesting of start() calls and a RangeError    *)
(*                        in flight once the call stack is exhausted       *)

FrameCap == 3

MaxChains == 2

MaxCallDepth == 3

MaxMouse == 1

MaxLoads == 1

Keys == {"w"}

Samples == {0, 1}

\* what a buffer holds, in the second run, when it is allocated
OtherContent == <<5, 1>>

RECURSIVE GCD(_, _)
GCD(a, b) == IF b = 0 THEN a ELSE GCD(b, a % b)

Rat(n, d) ==
    LET g == GCD(IF n < 0 THEN -n ELSE n, d)
    IN  <<n \div g, d \div g>>

RatAdd(x, y) == Rat(x[1] * y[2] + y[1] * x[2], x[2] * y[2])

RatSub(x, y) == Rat(x[1] * y[2] - y[1] * x[2], x[2] * y[2])

RatMul(x, y) == Rat(x[1] * y[1], x[2] * y[2])

\* WGSL mix(x, y, a) = x * (1 - a) + y * a
mix(x, y, a) == RatAdd(RatMul(x, RatSub(<<1, 1>>, a)), RatMul(y, a))

\* a faulty main: every later frame is blended in with weight one half
mainHalfWeight(prevColor, color, frameIndex) ==
    IF frameIndex > 0 THEN mix(prevColor, color, <<1, 2>>) ELSE color

\* pt.wgsl main: what the kernel stores at a pixel
main(prevColor, color, frameIndex) ==
    IF frameIndex > 0
    THEN mix(prevColor, color, Rat(1, frameIndex + 1))
    ELSE color

World(samples) ==
    [r |-> renderer, c |-> controller, b |-> browser, o |-> observer,
     samples |-> samples, depth |-> 0, thrown |-> FALSE]

\* a handle the browser has not handed out among those still held
requestAnimationFrame(w) ==
    LET held == w.b.rafPending \cup w.b.rafBatch \cup {w.r.animationFrameId}
        id   == CHOOSE k \in 1..(Cardinality(held) + 1) :
                    /\ k \notin held
                    /\ \A j \in 1..(k - 1) : j \in held
    IN  [w EXCEPT !.b.rafPending = @ \cup {id}, !.r.animationFrameId = id]

cancelAnimationFrame(w, id) ==
    [w EXCEPT !.b.rafPending = @ \ {id}, !.b.rafBatch = @ \ {id}]

\* lines 269-277: a new output buffer, zero-initialised; lines 279-352:
\* new scene buffers, filled from sceneData.  Every buffer the renderer
\* refers to is new, so none of them is a destroyed one.
createBuffers(w) ==
    [w EXCEPT !.r.outputBuffer = Zero,
              !.r.sceneBuffers = [b \in SceneBuffers |-> w.r.sceneData],
              !.r.buffersDestroyed = FALSE,
              !.o.twinBuffer = OtherContent,
              !.o.bufferFresh = TRUE]

\* the bind group refers to the buffers the renderer holds now
createBindGroups(w) == [w EXCEPT !.r.computeBindGroup = w.r.sceneBuffers]

\* loadModel once the loader has resolved with the scene of modelPath
loadModel(w, modelPath) ==
    createBindGroups(createBuffers([w EXCEPT !.r.sceneData = modelPath]))

updateCamera(w) == [w EXCEPT !.r.cameraFrameIndex = w.r.frameIndex]

renderFrame(w) ==
    LET w1     == updateCamera(w)
        f      == w1.r.cameraFrameIndex
        color  == <<Head(w1.samples), 1>>
        result == main(w1.r.outputBuffer, color, f)
        twin   == main(w1.o.twinBuffer, color, f)
        o      == w1.o
        fixed  == \/ f = 0
                  \/ /\ o.runFixed /\ f = o.runCount
                     /\ ~o.bufferFresh /\ ~o.cameraMutated /\ ~o.resized
    IN  [w1 EXCEPT
            !.r.outputBuffer = result,
            !.r.frameIndex = @ + 1,
            !.samples = Tail(@),
            !.o = [o EXCEPT
                     !.lastDispatch =
                         [frameIndex |-> f, sample |-> Head(w1.samples),
                          result |-> result, twinResult |-> twin,
                          afterCamera |-> o.cameraMutated,
                          afterResize |-> o.resized,
                          freshBuffer |-> o.bufferFresh,
                          twinDiffered |-> o.twinBuffer # w1.r.outputBuffer,
                          afterFrames |-> o.runCount >= 2,
                          bound |-> w1.r.computeBindGroup,
                          destroyedBuffer |-> w1.r.buffersDestroyed,
                          afterDestroy |-> o.destroyCalled],
                     !.twinBuffer = twin,
                     !.cameraMutated = FALSE,
                     !.resized = FALSE,
                     !.bufferFresh = FALSE,
                     !.runCount = IF f = 0 THEN 1 ELSE @ + 1,
                     !.runSum = IF f = 0 THEN Head(w1.samples) ELSE @ + Head(w1.samples),
                     !.runFixed = fixed,
                     !.framesThisTick = @ + 1]]

RECURSIVE start(_)
RECURSIVE animate(_)
RECURSIVE update(_)
RECURSIVE moveCamera(_)
RECURSIVE rotateCamera(_)
RECURSIVE resetOutputBuffer(_)

\* a faulty resetOutputBuffer: the frame index is left as it is
resetOutputBufferKeepsIndex(w) ==
    IF w.r.animationFrameId = null THEN start(w) ELSE w

resetOutputBuffer(w) ==
    LET w1 == [w EXCEPT !.r.frameIndex = 0, !.r.cameraFrameIndex = 0]
    IN  IF w1.r.animationFrameId = null THEN start(w1) ELSE w1

moveCamera(w) == resetOutputBuffer([w EXCEPT !.o.cameraMutated = TRUE])

rotateCamera(w) == resetOutputBuffer([w EXCEPT !.o.cameraMutated = TRUE])

\* Controller.update: a pressed movement key moves the camera, pending
\* mouse movement rotates it and is then cleared
update(w) ==
    LET w1 == IF "w" \in w.c.isKeyPressed THEN moveCamera(w) ELSE w
    IN  IF w1.thrown \/ w1.c.mouseMovement = 0 THEN w1
        ELSE LET w2 == rotateCamera(w1)
             IN  IF w2.thrown THEN w2 ELSE [w2 EXCEPT !.c.mouseMovement = 0]

animate(w) ==
    LET w1 == IF w.r.onUpdateTasks > 0 THEN update(w) ELSE w
    IN  IF w1.thrown THEN w1
        ELSE requestAnimationFrame(
                 IF MAX_FRAMES = -1 \/ w1.r.frameIndex < MAX_FRAMES
                 THEN renderFrame(w1) ELSE w1)

\* start() calls animate synchronously; the call stack is finite
start(w) ==
    IF w.depth >= MaxCallDepth THEN [w EXCEPT !.thrown = TRUE]
    ELSE [animate([w EXCEPT !.depth = @ + 1]) EXCEPT !.depth = @ - 1]

stop(w) ==
    IF w.r.animationFrameId # null
    THEN [cancelAnimationFrame(w, w.r.animationFrameId) EXCEPT !.r.animationFrameId = null]
    ELSE w

\* a faulty resize: the frame index is left as it is
resizeKeepsIndex(w) == createBindGroups(createBuffers([w EXCEPT !.o.resized = TRUE]))

resize(w) ==
    createBindGroups(createBuffers([w EXCEPT !.r.frameIndex = 0, !.o.resized = TRUE]))

\* destroy(): stop(), then every buffer the renderer holds is destroyed;
\* the bind groups keep referring to them
destroy(w) ==
    [stop(w) EXCEPT !.r.buffersDestroyed = TRUE, !.o.destroyCalled = TRUE]

\* the radiance of the handler's n dispatches
SampleSeqs(n) == [1..n -> Samples]

\* the handler has returned: its effects are the next state, and an
\* exception nobody caught is reported
Commit(w) ==
    /\ w.r.frameIndex <= FrameCap
    /\ Cardinality(w.b.rafPending) <= MaxChains
    /\ renderer' = w.r
    /\ controller' = w.c
    /\ browser' = w.b
    /\ observer' = [w.o EXCEPT !.uncaught = w.thrown]
    /\ UNCHANGED bvhVars
    /\ UNCHANGED traverseVars
    /\ UNCHANGED kernelVars
    /\ UNCHANGED hostVars

\* a handler outside an animation tick leaves the tick's frame count alone
CommitEvent(w) == Commit([w EXCEPT !.o.framesThisTick = observer.framesThisTick])

\* setupRenderer, lines 541-555, from the moment the first model has loaded
SetupRenderer ==
    /\ pcRender = "setup"
    /\ \E samples \in SampleSeqs(1) :
          LET w1 == loadModel([World(samples) EXCEPT !.b.pendingLoads = Tail(@)],
                              Head(browser.pendingLoads))
              w2 == start(w1)
          IN  CommitEvent([w2 EXCEPT !.r.onUpdateTasks = @ + 1])
    /\ pcRender' = "running"

\* the callbacks of one animation tick, in the order of their handles
RECURSIVE RunCallbacks(_)
RunCallbacks(w) ==
    IF w.b.rafBatch = {} THEN w
    ELSE LET id == MinOf(w.b.rafBatch)
             w1 == animate([w EXCEPT !.b.rafBatch = @ \ {id}, !.thrown = FALSE])
         IN  RunCallbacks([w1 EXCEPT !.thrown = w.thrown \/ w1.thrown])

AnimationTick ==
    /\ pcRender = "running"
    /\ browser.rafPending # {}
    /\ \E samples \in SampleSeqs(Cardinality(browser.rafPending)) :
          Commit(RunCallbacks([World(samples) EXCEPT
                                  !.b.rafBatch = browser.rafPending,
                                  !.b.rafPending = {},
                                  !.o.framesThisTick = 0]))
    /\ UNCHANGED pcRender

KeyDown ==
    /\ pcRender = "running"
    /\ \E key \in Keys :
          CommitEvent([World(<<>>) EXCEPT !.c.isKeyPressed = @ \cup {key}])
    /\ UNCHANGED pcRender

KeyUp ==
    /\ pcRender = "running"
    /\ \E key \in Keys :
          CommitEvent([World(<<>>) EXCEPT !.c.isKeyPressed = @ \ {key}])
    /\ UNCHANGED pcRender

\* onMouseMove, and onTouchMove with one finger
MouseMove ==
    /\ pcRender = "running"
    /\ \E movementX \in {1} :
          /\ controller.mouseMovement + movementX <= MaxMouse
          /\ CommitEvent([World(<<>>) EXCEPT !.c.mouseMovement = @ + movementX])
    /\ UNCHANGED pcRender

\* onTouchMove with two fingers
TouchMove ==
    /\ pcRender = "running"
    /\ \E samples \in SampleSeqs(IF renderer.animationFrameId = null THEN 1 ELSE 0) :
          CommitEvent(moveCamera(World(samples)))
    /\ UNCHANGED pcRender

ClickStop ==
    /\ pcRender = "running"
    /\ CommitEvent(stop(World(<<>>)))
    /\ UNCHANGED pcRender

\* the Restart button: resetOutputBuffer(), then start()
ClickRestart ==
    /\ pcRender = "running"
    /\ \E samples \in SampleSeqs(IF renderer.animationFrameId = null THEN 2 ELSE 1) :
          LET w1 == resetOutputBuffer(World(samples))
          IN  CommitEvent(IF w1.thrown THEN w1 ELSE start(w1))
    /\ UNCHANGED pcRender

Resize ==
    /\ pcRender = "running"
    /\ CommitEvent(resize(World(<<>>)))
    /\ UNCHANGED pcRender

\* App.handleFileDrop: loadModel is called for one of the files and awaits
\* the loader, with fewer than limit loads in flight
handleFileDrop(files, limit) ==
    /\ pcRender = "running"
    /\ Len(browser.pendingLoads) < limit
    /\ \E file \in files :
          CommitEvent([World(<<>>) EXCEPT !.b.pendingLoads = Append(@, file),
                                         !.o.lastRequested = file])
    /\ UNCHANGED pcRender

\* the frame loop does not look at the scene: the file dropped holds the
\* scene already shown
FileDrop == handleFileDrop({StartModel}, MaxLoads)

\* pending without its k-th element
RemoveAt(pending, k) ==
    [j \in 1..(Len(pending) - 1) |-> IF j < k THEN pending[j] ELSE pending[j + 1]]

\* loadModel after the await: the loader resolves the loads in any order
LoadComplete ==
    /\ pcRender = "running"
    /\ \E k \in DOMAIN browser.pendingLoads :
          CommitEvent(loadModel([World(<<>>) EXCEPT !.b.pendingLoads = RemoveAt(@, k)],
                                browser.pendingLoads[k]))
    /\ UNCHANGED pcRender

InitRender ==
    /\ BuildEntry(<<>>, [maxTrianglesPerLeaf |-> 4, numOfBins |-> 12])
    /\ TraverseIdle
    /\ RendererConstructed
    /\ HostIdle
    /\ KernelIdle

NextRender ==
    \/ SetupRenderer
    \/ AnimationTick
    \/ KeyDown
    \/ KeyUp
    \/ MouseMove
    \/ TouchMove
    \/ ClickStop
    \/ ClickRestart
    \/ Resize
    \/ FileDrop
    \/ LoadComplete

SpecRender == InitRender /\ [][NextRender]_vars

----------------------------------------------------------------------------
(* The renderer from mount to unmount, with models dropped while others    *)
(* are still loading.  The listeners setupRenderer and the Controller      *)
(* install are never removed: Renderer.destroy does not call               *)
(* Controller.destroy and the resize listener is anonymous, so every       *)
(* handler stays enabled after destroy().                                  *)

MaxInFlight == 2

Models == {"A.glb", "B.glb"}

\* App's effect cleanup: rendererRef.current.destroy(), once
Destroy ==
    /\ pcRender = "running"
    /\ ~observer.destroyCalled
    /\ CommitEvent(destroy(World(<<>>)))
    /\ UNCHANGED pcRender

DropModel == handleFileDrop(Models, MaxInFlight)

NextLifetime ==
    \/ SetupRenderer
    \/ AnimationTick
    \/ TouchMove
    \/ Resize
    \/ DropModel
    \/ LoadComplete
    \/ Destroy

SpecLifetime == InitRender /\ [][NextLifetime]_vars

----------------------------------------------------------------------------
(* Claims about the frame loop *)

\* C3: after a camera mutation (moveCamera, rotateCamera) or a resize, in
\* any interleaving with rendered frames, the frameIndex uploaded by the
\* first renderFrame that follows is 0.
C3_FirstFrameAfterMutationIsZero ==
    LET d == observer.lastDispatch
    IN  (d.afterCamera \/ d.afterResize) => d.frameIndex = 0

C3_Witness ==
    LET d == observer.lastDispatch
    IN  /\ d.afterResize
        /\ d.frameIndex = 0
        /\ d.afterFrames

\* C4: a reset is atomic with respect to frame-index zeroing for every
\* cause (camera move, resize, model load): no dispatch finds the buffer
\* freshly allocated since the previous dispatch while the uploaded
\* frameIndex is greater than 0, and none with frameIndex 0 blends in what
\* the buffer held before.
C4_ResetAtomic ==
    LET d == observer.lastDispatch
    IN  d.frameIndex # null =>
            /\ d.freshBuffer => d.frameIndex = 0
            /\ d.frameIndex = 0 => (d.result = <<d.sample, 1>> /\ d.twinResult = d.result)

\* C5: with camera, scene and resolution fixed, after the dispatch that
\* carries frameIndex = N, the N + 1-th dispatch in a row since the last
\* reset, the pixel equals the arithmetic mean of its N + 1 samples.
C5_BufferIsMean ==
    LET d == observer.lastDispatch
    IN  (d.frameIndex # null /\ observer.runFixed) =>
            /\ d.frameIndex = observer.runCount - 1
            /\ RatMul(d.result, <<observer.runCount, 1>>) = <<observer.runSum, 1>>

C5_Witness ==
    /\ observer.runFixed
    /\ observer.runCount >= 3
    /\ observer.lastDispatch.result[2] = 3

\* C6: the value the first dispatch after a camera mutation writes is that
\* frame's single fresh sample, whatever the buffer held before the reset:
\* the run whose buffer held other content ends with the same pixel.
C6_FirstFrameIndependent ==
    LET d == observer.lastDispatch
    IN  d.afterCamera => (d.result = <<d.sample, 1>> /\ d.twinResult = d.result)

C6_Witness ==
    LET d == observer.lastDispatch
    IN  /\ d.afterCamera
        /\ d.twinDiffered
        /\ d.afterFrames
        /\ d.twinResult = d.result

\* C7: across any interleaving of start(), stop(), the Restart control,
\* camera mutations and animation-frame callbacks, at most one callback
\* chain is pending, so renderFrame runs at most once per animation tick.
C7_SingleChain ==
    /\ Cardinality(browser.rafPending) <= 1
    /\ observer.framesThisTick <= 1

\* C26: every call to start() returns: entered while the loop is stopped
\* (animationFrameId = null) with a movement key held or mouse movement
\* pending, the chain resetOutputBuffer -> start -> animate -> update does
\* not recurse until the call stack is exhausted, so no handler ends with
\* an uncaught RangeError.
C26_StartReturns == ~observer.uncaught

\* C27: after stop() has returned and until start() runs again, whatever
\* start, Restart and camera operations came before, no animation-frame
\* callback remains scheduled (so no renderFrame can run).
C27_StopLeavesNothingScheduled ==
    renderer.animationFrameId = null => browser.rafPending = {}

\* C28: after destroy() has been called, whatever event follows (a
\* two-finger touch move, a window resize, the completion of a load that
\* was pending), no renderFrame is executed, and no dispatch refers to a
\* destroyed buffer.
C28_NothingAfterDestroy ==
    LET d == observer.lastDispatch
    IN  ~d.afterDestroy /\ ~d.destroyedBuffer

\* C29: once every loadModel in flight has resolved, in whatever order,
\* sceneData, the scene buffers and the bind group are those of the model
\* requested last; and the buffers bound at any renderFrame all hold the
\* same scene.
C29_LastRequestedWins ==
    LET d == observer.lastDispatch
    IN  /\ (pcRender = "running" /\ browser.pendingLoads = <<>>) =>
               /\ renderer.sceneData = observer.lastRequested
               /\ \A b \in SceneBuffers :
                     /\ renderer.sceneBuffers[b] = observer.lastRequested
                     /\ renderer.computeBindGroup[b] = observer.lastRequested
        /\ d.frameIndex # null =>
               \A b1, b2 \in SceneBuffers : d.bound[b1] = d.bound[b2]


-----------------------------------------------------------------------------
(* One dispatch of the path-tracing kernel.  renderFrame dispatches a grid *)
(* of workgroups computed from the canvas size; each invocation of main    *)
(* compares its id with the camera's width and height, which setupCamera   *)
(* and resize copy from the canvas.  The workgroups of a dispatch run in   *)
(* any order; the 256 invocations of one workgroup are taken together.     *)

MaxDim == 17

WorkgroupSize == 16

DefaultOptions == [maxTrianglesPerLeaf |-> 4, numOfBins |-> 12]

\* a faulty grid size: the partial workgroup at the edge is left out
ceilRoundsDown(n, d) == n \div d

\* Math.ceil(n / d) for the positive integers of a canvas size
ceil(n, d) == (n + d - 1) \div d

\* setupCamera: the camera's size is read from the canvas
setupCamera(canvas, frameIndex) ==
    [width |-> canvas.width, height |-> canvas.height, frameIndex |-> frameIndex]

\* dispatchWorkgroups(ceil(width / 16), ceil(height / 16)): the workgroup ids
dispatchWorkgroups(canvas) ==
    (0..(ceil(canvas.width, WorkgroupSize) - 1))
        \X (0..(ceil(canvas.height, WorkgroupSize) - 1))

\* the global invocation ids of the workgroup g
Invocations(g) ==
    {[x |-> g[1] * WorkgroupSize + lx, y |-> g[2] * WorkgroupSize + ly] :
        lx \in 0..(WorkgroupSize - 1), ly \in 0..(WorkgroupSize - 1)}

\* main's early return
OutsideImage(id, camera) == id.x >= camera.width \/ id.y >= camera.height

\* main's bufferIndex.  It is a u32; the product stays far below 2^32 for
\* every canvas whose outputBuffer of width * height * 16 bytes exists.
bufferIndex(id, camera) == id.y * camera.width + id.x

\* the elements of outputBuffer main reads: the previous color, from the
\* second frame on
mainReads(id, camera) ==
    IF OutsideImage(id, camera) THEN {}
    ELSE IF camera.frameIndex > 0 THEN {bufferIndex(id, camera)} ELSE {}

\* the elements of outputBuffer main writes
mainWrites(id, camera) ==
    IF OutsideImage(id, camera) THEN {} ELSE {bufferIndex(id, camera)}

\* createBuffers: outputBuffer holds width * height colors
BufferIndices(canvas) == 0..(canvas.width * canvas.height - 1)

\* the canvas is sized and the camera set up; nothing is dispatched yet
DispatchEntry(w, h, frameIndex) ==
    dispatch = [pc |-> "encode",
                canvas |-> [width |-> w, height |-> h],
                camera |-> setupCamera([width |-> w, height |-> h], frameIndex),
                pending |-> {}, written |-> {}, twice |-> {},
                outside |-> {}, stray |-> FALSE]

\* renderFrame: the compute pass is encoded and submitted
DispatchSubmit ==
    /\ dispatch.pc = "encode"
    /\ dispatch' = [dispatch EXCEPT !.pc = "running",
                                    !.pending = dispatchWorkgroups(dispatch.canvas)]
    /\ UNCHANGED <<scene, rng, path, lobe>>
    /\ UNCHANGED bvhVars
    /\ UNCHANGED traverseVars
    /\ UNCHANGED renderVars
    /\ UNCHANGED hostVars

\* one workgroup of the grid runs main in each of its invocations
RunWorkgroup ==
    /\ dispatch.pc = "running"
    /\ \E g \in dispatch.pending :
        LET cam == dispatch.camera
            ids == Invocations(g)
            writers == {id \in ids : mainWrites(id, cam) # {}}
            W == UNION {mainWrites(id, cam) : id \in writers}
            R == UNION {mainReads(id, cam) : id \in ids}
            again == IF Cardinality(W) = Cardinality(writers) THEN {}
                     ELSE {i \in W : Cardinality({id \in writers :
                                        i \in mainWrites(id, cam)}) > 1}
            rest == dispatch.pending \ {g}
        IN dispatch' = [dispatch EXCEPT
               !.pending = rest,
               !.written = @ \cup W,
               !.twice = @ \cup again \cup (W \cap dispatch.written),
               !.outside = @ \cup ((W \cup R) \ BufferIndices(dispatch.canvas)),
               !.stray = @ \/ \E id \in ids :
                              /\ OutsideImage(id, cam)
                              /\ mainReads(id, cam) \cup mainWrites(id, cam) # {},
               !.pc = IF rest = {} THEN "done" ELSE "running"]
    /\ UNCHANGED <<scene, rng, path, lobe>>
    /\ UNCHANGED bvhVars
    /\ UNCHANGED traverseVars
    /\ UNCHANGED renderVars
    /\ UNCHANGED hostVars

InitDispatch ==
    /\ BuildEntry(<<>>, DefaultOptions)
    /\ TraverseIdle
    /\ RendererConstructed
    /\ HostIdle
    /\ \E w \in 1..MaxDim, h \in 1..MaxDim, frameIndex \in 0..1 :
          DispatchEntry(w, h, frameIndex)
    /\ scene = [pc |-> "idle"]
    /\ rng = [pc |-> "idle"]
    /\ path = [pc |-> "idle"]
    /\ lobe = [pc |-> "idle"]

NextDispatch == DispatchSubmit \/ RunWorkgroup

SpecDispatch == InitDispatch /\ [][NextDispatch]_vars

\* C15: for every width >= 1 and height >= 1, the dispatch of
\* ceil(width / 16) x ceil(height / 16) workgroups of 16 x 16 invocations
\* writes every pixel of the image exactly once, at an index y * width + x
\* below width * height, and an invocation outside the image returns without
\* reading or writing the buffer.
C15_EveryPixelWrittenOnce ==
    /\ dispatch.pc \in {"running", "done"} =>
          /\ dispatch.twice = {}
          /\ dispatch.outside = {}
          /\ ~dispatch.stray
    /\ dispatch.pc = "done" => dispatch.written = BufferIndices(dispatch.canvas)

\* a finished dispatch whose grid had a partial workgroup in both directions
C15_Witness ==
    /\ dispatch.pc = "done"
    /\ dispatch.canvas.width = WorkgroupSize + 1
    /\ dispatch.canvas.height = WorkgroupSize + 1
    /\ dispatch.camera.frameIndex = 1
    /\ Cardinality(dispatch.written) = (WorkgroupSize + 1) * (WorkgroupSize + 1)


-----------------------------------------------------------------------------
(* The kernel's random numbers.  rngState is a u32, written here as the    *)
(* pair <<high half, low half>> of its 16-bit halves, so that every step   *)
(* of the 32-bit arithmetic of rand() is computed exactly.  An f32 that    *)
(* holds an integer is written as the same kind of pair (its high half     *)
(* may then reach 2^16); rounding is IEEE round-to-nearest-even.           *)

MaxLights == 3

MaxRandCalls == 3

MaxSeedFrame == 1

Half == 65536

Byte == 256

\* the u32 of a natural number below 2^31
ToU32(n) == <<(n \div Half) % Half, n % Half>>

\* u32 addition
AddU32(a, b) ==
    LET lo == a[2] + b[2]
    IN <<(a[1] + b[1] + (lo \div Half)) % Half, lo % Half>>

\* u32 multiplication, by bytes so that no partial product passes 2^31
MulU32(a, b) ==
    LET MulLow(x, y) ==
            ((x % Byte) * (y % Byte)
             + (((x \div Byte) * (y % Byte) + (x % Byte) * (y \div Byte)) % Byte) * Byte) % Half
        mid == (a[2] \div Byte) * (b[2] % Byte) + (a[2] % Byte) * (b[2] \div Byte)
        low == (a[2] % Byte) * (b[2] % Byte) + (mid % Byte) * Byte
        high == (a[2] \div Byte) * (b[2] \div Byte) + (mid \div Byte) + (low \div Half)
    IN <<(high + MulLow(a[1], b[2]) + MulLow(a[2], b[1])) % Half, low % Half>>

\* u32 >> k
ShrU32(a, k) ==
    IF k >= 16 THEN <<0, a[1] \div (2 ^ (k - 16))>>
    ELSE <<a[1] \div (2 ^ k), (a[2] \div (2 ^ k)) + (a[1] % (2 ^ k)) * (2 ^ (16 - k))>>

RECURSIVE Xor16(_, _, _)
\* the exclusive or of the low bits of x and y
Xor16(x, y, bits) ==
    IF bits = 0 THEN 0
    ELSE ((x + y) % 2) + 2 * Xor16(x \div 2, y \div 2, bits - 1)

\* u32 ^ u32
XorU32(a, b) == <<Xor16(a[1], b[1], 16), Xor16(a[2], b[2], 16)>>

RECURSIVE BitLength(_)
BitLength(h) == IF h = 0 THEN 0 ELSE 1 + BitLength(h \div 2)

\* an integer rounded to the 24 significant bits of an f32, ties to even
RoundF32(v) ==
    LET k == BitLength(v[1]) - 8
    IN IF k <= 0 THEN v
       ELSE LET unit == 2 ^ k
                r == v[2] % unit
                q == v[2] \div unit
                up == 2 * r > unit \/ (2 * r = unit /\ q % 2 = 1)
                lo == (q + (IF up THEN 1 ELSE 0)) * unit
            IN <<v[1] + (lo \div Half), lo % Half>>

\* initRNG: rngState = pixel.x + pixel.y * 1000u + frame * 100000u (the
\* frames of the model keep the sum below 2^31)
initRNG(pixel, frame) == ToU32(pixel.x + pixel.y * 1000 + frame * 100000)

\* rand(), first line: rngState = rngState * 747796405u + 2891336453u
randState(state) == AddU32(MulU32(state, <<11410, 30645>>), <<44118, 19205>>)

\* rand(), the u32 called result, computed from the new rngState
randResult(state) ==
    LET shift == ShrU32(state, 28)[2] + 4
        mixed == MulU32(XorU32(ShrU32(state, shift), state), <<4238, 62169>>)
    IN XorU32(ShrU32(mixed, 22), mixed)

\* the f32 of the literal 4294967295.0: 2^32
RandDivisor == RoundF32(<<65535, 65535>>)

\* rand(): f32(result) / 4294967295.0, as the fraction num / den of two
\* f32 values; the quotient by the power of two den is exact
rand(state) == [num |-> RoundF32(randResult(randState(state))), den |-> RandDivisor]

\* num / den < 1
BelowOne(value) ==
    \/ value.num[1] < value.den[1]
    \/ value.num[1] = value.den[1] /\ value.num[2] < value.den[2]

\* randInt(min, max): min + u32(rand() * f32(max - min + 1)); the product
\* is rounded to f32 and truncated (den has a zero low half)
randInt(state, min, max) ==
    LET value == rand(state)
        count == max - min + 1
        lo == value.num[2] * count
        product == RoundF32(<<value.num[1] * count + (lo \div Half), lo % Half>>)
    IN min + (product[1] \div value.den[1])

\* the pixels and frames the seeds are drawn from: the corners of the
\* ranges over which x + 1000 y + 100000 frame carries from one term to the
\* next, and the pixel (338, 94) of frame 757
SeedPixels == [x : {0, 1, 999, 1000}, y : {0, 1, 99, 100}]

SeedFrames == 0..MaxSeedFrame

Invocation757 == [pixel |-> [x |-> 338, y |-> 94], frame |-> 757]

\* main calls initRNG(id.xy, camera.frameIndex) in an invocation
RngEntry(pixel, frame, n) ==
    rng = [pc |-> "main", pixel |-> pixel, frame |-> frame, lights |-> n,
           state |-> <<0, 0>>, calls |-> 0, value |-> [num |-> <<0, 0>>, den |-> <<1, 0>>],
           index |-> 0]

InitRNGStep ==
    /\ rng.pc = "main"
    /\ rng' = [rng EXCEPT !.pc = "seeded", !.state = initRNG(rng.pixel, rng.frame)]
    /\ UNCHANGED <<scene, dispatch, path, lobe>>
    /\ UNCHANGED bvhVars
    /\ UNCHANGED traverseVars
    /\ UNCHANGED renderVars
    /\ UNCHANGED hostVars

\* one call of rand()
RandStep ==
    /\ rng.pc = "seeded"
    /\ rng.calls < MaxRandCalls
    /\ rng' = [rng EXCEPT !.state = randState(rng.state),
                          !.value = rand(rng.state),
                          !.calls = @ + 1]
    /\ UNCHANGED <<scene, dispatch, path, lobe>>
    /\ UNCHANGED bvhVars
    /\ UNCHANGED traverseVars
    /\ UNCHANGED renderVars
    /\ UNCHANGED hostVars

\* sampleLight: lights[randInt(0u, arrayLength(&lights) - 1u)]
SampleLightStep ==
    /\ rng.pc = "seeded"
    /\ rng' = [rng EXCEPT !.pc = "sampled",
                          !.state = randState(rng.state),
                          !.value = rand(rng.state),
                          !.index = randInt(rng.state, 0, rng.lights - 1)]
    /\ UNCHANGED <<scene, dispatch, path, lobe>>
    /\ UNCHANGED bvhVars
    /\ UNCHANGED traverseVars
    /\ UNCHANGED renderVars
    /\ UNCHANGED hostVars

InitRng ==
    /\ BuildEntry(<<>>, DefaultOptions)
    /\ TraverseIdle
    /\ RendererConstructed
    /\ HostIdle
    /\ \E n \in 1..MaxLights :
          \/ \E pixel \in SeedPixels, frame \in SeedFrames : RngEntry(pixel, frame, n)
          \/ RngEntry(Invocation757.pixel, Invocation757.frame, n)
    /\ scene = [pc |-> "idle"]
    /\ dispatch = [pc |-> "idle"]
    /\ path = [pc |-> "idle"]
    /\ lobe = [pc |-> "idle"]

NextRng == InitRNGStep \/ RandStep \/ SampleLightStep

SpecRng == InitRng /\ [][NextRng]_vars

\* two invocations of main, of the same or of different frames
SeedPairEntry(a, b) ==
    rng = [pc |-> "pair", a |-> a, b |-> b, seedA |-> <<0, 0>>, seedB |-> <<0, 0>>]

\* both invocations call initRNG
InitRNGPair ==
    /\ rng.pc = "pair"
    /\ rng' = [rng EXCEPT !.pc = "seeded pair",
                          !.seedA = initRNG(rng.a.pixel, rng.a.frame),
                          !.seedB = initRNG(rng.b.pixel, rng.b.frame)]
    /\ UNCHANGED <<scene, dispatch, path, lobe>>
    /\ UNCHANGED bvhVars
    /\ UNCHANGED traverseVars
    /\ UNCHANGED renderVars
    /\ UNCHANGED hostVars

InitSeed ==
    /\ BuildEntry(<<>>, DefaultOptions)
    /\ TraverseIdle
    /\ RendererConstructed
    /\ HostIdle
    /\ \E a, b \in [pixel : SeedPixels, frame : SeedFrames] : SeedPairEntry(a, b)
    /\ scene = [pc |-> "idle"]
    /\ dispatch = [pc |-> "idle"]
    /\ path = [pc |-> "idle"]
    /\ lobe = [pc |-> "idle"]

NextSeed == InitRNGPair

SpecSeed == InitSeed /\ [][NextSeed]_vars

\* C16: the seed is a function of (x, y, frame): two invocations with
\* distinct triples start from distinct rngState, two with equal triples from
\* the same rngState.
C16_SeedsDistinct ==
    rng.pc = "seeded pair" => ((rng.seedA = rng.seedB) <=> (rng.a = rng.b))

\* C17: rand() is below 1 for every rngState, so the index randInt(0, n - 1)
\* of sampleLight is below the light count n.
C17_RandBelowOne ==
    /\ (rng.pc \in {"seeded", "sampled"} /\ (rng.calls > 0 \/ rng.pc = "sampled"))
          => BelowOne(rng.value)
    /\ rng.pc = "sampled" => rng.index < rng.lights


-----------------------------------------------------------------------------
(* trace: the loop over the bounces of one path.  What sceneIntersect,     *)
(* the material and the BSDF return is an input of each iteration; the log *)
(* lists the stages the path went through.                                 *)

MAX_BOUNCES == 8

\* a faulty roulette test: it starts one bounce early
RouletteAfterBounceOne(bounce) == bounce > 1

\* if (bounce > 2)
RouletteApplies(bounce) == bounce > 2

\* if (DO_MIS && transmissionProb < 0.9), with transmissionProb in tenths
DirectLightApplies(transmissionProb) == transmissionProb < 9

\* main has built the camera ray and calls trace
PathEntry ==
    path = [pc |-> "main", bounce |-> 0, log |-> <<"GENERATE_RAY">>,
            intersections |-> 0, transmissionProb |-> 0, roulette |-> {}]

\* the head of the for loop and sceneIntersect with its two early breaks
TraceIntersect ==
    /\ path.pc \in {"main", "loop"}
    /\ IF path.bounce < MAX_BOUNCES
       THEN \E hit \in {"miss", "emissive", "surface"}, tp \in {0, 9, 10} :
               path' = [path EXCEPT
                   !.intersections = @ + 1,
                   !.transmissionProb = IF hit = "surface" THEN tp ELSE 0,
                   !.log = @ \o (IF hit = "miss" THEN <<"TRAVERSE", "MISS", "DONE">>
                                 ELSE IF hit = "emissive"
                                 THEN <<"TRAVERSE", "HIT_EMISSIVE", "DONE">>
                                 ELSE <<"TRAVERSE", "HIT_SURFACE">>),
                   !.pc = IF hit = "surface" THEN "direct" ELSE "returned"]
       ELSE path' = [path EXCEPT !.pc = "returned", !.log = @ \o <<"DONE">>]
    /\ UNCHANGED <<scene, dispatch, rng, lobe>>
    /\ UNCHANGED bvhVars
    /\ UNCHANGED traverseVars
    /\ UNCHANGED renderVars
    /\ UNCHANGED hostVars

\* the direct light of the hit: sampleLight, unless the material is mostly
\* transmissive
TraceDirectLight ==
    /\ path.pc = "direct"
    /\ path' = [path EXCEPT
           !.log = IF DirectLightApplies(path.transmissionProb)
                   THEN @ \o <<"NEE">> ELSE @,
           !.pc = "bsdf"]
    /\ UNCHANGED <<scene, dispatch, rng, lobe>>
    /\ UNCHANGED bvhVars
    /\ UNCHANGED traverseVars
    /\ UNCHANGED renderVars
    /\ UNCHANGED hostVars

\* sampleBSDF and evalBSDF, the break on bsdfPdf <= 0, the new ray, the
\* roulette and bounce++
TraceSampleBSDF ==
    /\ path.pc = "bsdf"
    /\ \E pdfPositive \in BOOLEAN, survives \in BOOLEAN :
          IF ~pdfPositive
          THEN path' = [path EXCEPT !.pc = "returned", !.log = @ \o <<"BSDF", "DONE">>]
          ELSE IF RouletteApplies(path.bounce) /\ ~survives
          THEN path' = [path EXCEPT !.pc = "returned",
                                    !.roulette = @ \cup {path.bounce},
                                    !.log = @ \o <<"BSDF", "RR_TERMINATE", "DONE">>]
          ELSE path' = [path EXCEPT !.pc = "loop",
                                    !.roulette = IF RouletteApplies(path.bounce)
                                                 THEN @ \cup {path.bounce} ELSE @,
                                    !.bounce = @ + 1,
                                    !.log = @ \o <<"BSDF", "CONTINUE">>]
    /\ UNCHANGED <<scene, dispatch, rng, lobe>>
    /\ UNCHANGED bvhVars
    /\ UNCHANGED traverseVars
    /\ UNCHANGED renderVars
    /\ UNCHANGED hostVars

InitPath ==
    /\ BuildEntry(<<>>, DefaultOptions)
    /\ TraverseIdle
    /\ RendererConstructed
    /\ HostIdle
    /\ PathEntry
    /\ scene = [pc |-> "idle"]
    /\ dispatch = [pc |-> "idle"]
    /\ rng = [pc |-> "idle"]
    /\ lobe = [pc |-> "idle"]

NextPath == TraceIntersect \/ TraceDirectLight \/ TraceSampleBSDF

SpecPath == InitPath /\ [][NextPath]_vars

\* the stages of the log from the first miss or emissive hit on
AfterEnd(log) ==
    LET ends == {i \in 1..Len(log) : log[i] \in {"MISS", "HIT_EMISSIVE"}}
    IN IF ends = {} THEN <<>>
       ELSE SubSeq(log, (CHOOSE i \in ends : \A j \in ends : i <= j) + 1, Len(log))

\* every adjacent pair of stages of the log is an edge
Follows(log, edges) ==
    \A i \in 1..(Len(log) - 1) : <<log[i], log[i + 1]>> \in edges

\* the edges of the state machine as stated; CONTINUE leads to the next
\* TRAVERSE, or to DONE when the bounces are used up
StatedEdges ==
    {<<"GENERATE_RAY", "TRAVERSE">>, <<"TRAVERSE", "MISS">>,
     <<"TRAVERSE", "HIT_EMISSIVE">>, <<"TRAVERSE", "HIT_SURFACE">>,
     <<"MISS", "DONE">>, <<"HIT_EMISSIVE", "DONE">>,
     <<"HIT_SURFACE", "NEE">>, <<"NEE", "BSDF">>,
     <<"BSDF", "CONTINUE">>, <<"BSDF", "RR_TERMINATE">>,
     <<"RR_TERMINATE", "DONE">>, <<"CONTINUE", "TRAVERSE">>, <<"CONTINUE", "DONE">>}

\* the bounds the statement draws from the state machine
PathBounds ==
    /\ path.intersections <= MAX_BOUNCES
    /\ Len(SelectSeq(path.log, LAMBDA stage : stage = "TRAVERSE")) = path.intersections
    /\ \A i \in DOMAIN AfterEnd(path.log) : AfterEnd(path.log)[i] = "DONE"
    /\ \A bounce \in path.roulette : bounce > 2

-----------------------------------------------------------------------------
(* prepareScene: processNode has collected the triangles, one material per *)
(* primitive and the directional and point lights; buildBVH reorders the   *)
(* triangles in place; then the emissive lights are appended.  A triangle  *)
(* carries its materialIndex with it: the index is a function of its id.   *)

LIGHT_TYPE_EMISSIVE == 0

LIGHT_TYPE_DIRECTIONAL == 1

RECURSIVE emissiveLightsOfInput(_, _, _)
\* a faulty light collection: it walks the triangles in the order they had
\* before buildBVH
emissiveLightsOfInput(tris, sc, i) ==
    IF i >= Len(input) THEN <<>>
    ELSE LET materialIndex == sc.materialIndex[input[i + 1].id]
         IN (IF materialIndex >= 0 /\ sc.materials[materialIndex + 1]
             THEN <<[lightType |-> LIGHT_TYPE_EMISSIVE, triangleIndex |-> i]>>
             ELSE <<>>) \o emissiveLightsOfInput(tris, sc, i + 1)

RECURSIVE emissiveLights(_, _, _)
\* the loop over allTriangles from index i on: a light for each triangle
\* whose material has vec3.length(emission) > 0
emissiveLights(tris, sc, i) ==
    IF i >= Len(tris) THEN <<>>
    ELSE LET materialIndex == sc.materialIndex[tris[i + 1].id]
         IN (IF materialIndex >= 0 /\ sc.materials[materialIndex + 1]
             THEN <<[lightType |-> LIGHT_TYPE_EMISSIVE, triangleIndex |-> i]>>
             ELSE <<>>) \o emissiveLights(tris, sc, i + 1)

\* the sets of emissive triangles the scenes are drawn from: none, one, all
EmissiveSets(n) == {{}, 1..n} \cup {{k} : k \in 1..n}

\* after the processNode calls: material 0 does not emit, material 1 does
SceneEntry(n, emissive, nodeLights) ==
    scene = [pc |-> "processed",
             materials |-> <<FALSE, TRUE>>,
             materialIndex |-> [id \in 1..n |-> IF id \in emissive THEN 1 ELSE 0],
             lights |-> [k \in 1..nodeLights |->
                            [lightType |-> LIGHT_TYPE_DIRECTIONAL, triangleIndex |-> 0]]]

\* the loop after buildBVH has returned, and the return
CollectLights ==
    /\ pcBuild = "built"
    /\ scene.pc = "processed"
    /\ scene' = [scene EXCEPT !.pc = "prepared",
                              !.lights = @ \o emissiveLights(triangles, scene, 0)]
    /\ UNCHANGED <<dispatch, rng, path, lobe>>
    /\ UNCHANGED bvhVars
    /\ UNCHANGED traverseVars
    /\ UNCHANGED renderVars
    /\ UNCHANGED hostVars

InitScene ==
    /\ \E choice \in TriLists, nodeLights \in 0..1 :
       \E emissive \in EmissiveSets(Len(choice)) :
          /\ BuildEntry(MakeTris(choice), DefaultOptions)
          /\ SceneEntry(Len(choice), emissive, nodeLights)
    /\ TraverseIdle
    /\ RendererConstructed
    /\ HostIdle
    /\ dispatch = [pc |-> "idle"]
    /\ rng = [pc |-> "idle"]
    /\ path = [pc |-> "idle"]
    /\ lobe = [pc |-> "idle"]

NextScene == BuildStep \/ CollectLights

SpecScene == InitScene /\ [][NextScene]_vars

\* the material of the triangle at index i of the returned array emits
Emits(i) ==
    /\ scene.materialIndex[triangles[i + 1].id] >= 0
    /\ scene.materials[scene.materialIndex[triangles[i + 1].id] + 1]

\* C19: the emissive lights prepareScene returns refer to the reordered
\* triangle array: the triangle at every emissive light's triangleIndex has
\* a material with non-zero emission, and every triangle with such a
\* material is referenced by exactly one emissive light.
C19_EmissiveLightsUseFinalIndices ==
    scene.pc = "prepared" =>
        LET emissive == {k \in DOMAIN scene.lights :
                            scene.lights[k].lightType = LIGHT_TYPE_EMISSIVE}
        IN /\ \A k \in emissive :
                /\ scene.lights[k].triangleIndex \in 0..(Len(triangles) - 1)
                /\ Emits(scene.lights[k].triangleIndex)
           /\ \A i \in 0..(Len(triangles) - 1) :
                Emits(i) => Cardinality({k \in emissive :
                                scene.lights[k].triangleIndex = i}) = 1

\* a prepared scene whose only emissive triangle was moved by buildBVH, with
\* a directional light ahead of the emissive one
C19_Witness ==
    /\ scene.pc = "prepared"
    /\ Len(scene.lights) = 2
    /\ scene.lights[2].lightType = LIGHT_TYPE_EMISSIVE
    /\ triangles[scene.lights[2].triangleIndex + 1] # input[scene.lights[2].triangleIndex + 1]
    /\ \E i \in 0..(Len(triangles) - 1) : ~Emits(i)


-----------------------------------------------------------------------------
(* sampleBSDF: the choice of the lobe.  metallic and transmission are      *)
(* fractions with the denominator LobeSteps, and the draws r run over the  *)
(* fractions k / LobeSteps^2 of [0, 1): every threshold of sampleBSDF is   *)
(* one of them, so the share of the draws that select a lobe is the        *)
(* measure of the r that select it.                                        *)

LobeSteps == 4

RatLess(x, y) == x[1] * y[2] < y[1] * x[2]

\* faulty weights: the diffuse weight forgets the transmission
lobeProbsDiffuseKeepsAll(material) ==
    [diffuseProb |-> RatSub(<<1, 1>>, material.metallic),
     specularProb |-> material.metallic,
     transmissionProb |-> RatMul(RatSub(<<1, 1>>, material.metallic), material.transmission)]

\* diffuseProb, specularProb and transmissionProb of sampleBSDF
lobeProbs(material) ==
    [diffuseProb |-> RatMul(RatSub(<<1, 1>>, material.metallic),
                            RatSub(<<1, 1>>, material.transmission)),
     specularProb |-> material.metallic,
     transmissionProb |-> RatMul(RatSub(<<1, 1>>, material.metallic), material.transmission)]

\* the branch sampleBSDF takes for the draw r
sampleBSDF(material, r) ==
    LET probs == lobeProbs(material)
    IN IF RatLess(r, probs.diffuseProb) THEN "diffuseProb"
       ELSE IF RatLess(r, RatAdd(probs.diffuseProb, probs.specularProb))
       THEN "specularProb"
       ELSE "transmissionProb"

\* trace calls sampleBSDF with the material of the hit
LobeEntry(metallic, transmission) ==
    lobe = [pc |-> "sample",
            material |-> [metallic |-> metallic, transmission |-> transmission],
            draw |-> 0,
            taken |-> [l \in {"diffuseProb", "specularProb", "transmissionProb"} |-> 0]]

\* one call of sampleBSDF, with the next draw of the grid
SampleBSDFStep ==
    /\ lobe.pc = "sample"
    /\ LET r == Rat(lobe.draw, LobeSteps * LobeSteps)
           chosen == sampleBSDF(lobe.material, r)
       IN lobe' = [lobe EXCEPT
              !.taken[chosen] = @ + 1,
              !.draw = @ + 1,
              !.pc = IF lobe.draw + 1 = LobeSteps * LobeSteps THEN "done" ELSE "sample"]
    /\ UNCHANGED <<scene, dispatch, rng, path>>
    /\ UNCHANGED bvhVars
    /\ UNCHANGED traverseVars
    /\ UNCHANGED renderVars
    /\ UNCHANGED hostVars

InitLobe ==
    /\ BuildEntry(<<>>, DefaultOptions)
    /\ TraverseIdle
    /\ RendererConstructed
    /\ HostIdle
    /\ \E a \in 0..LobeSteps, b \in 0..LobeSteps :
          LobeEntry(Rat(a, LobeSteps), Rat(b, LobeSteps))
    /\ scene = [pc |-> "idle"]
    /\ dispatch = [pc |-> "idle"]
    /\ rng = [pc |-> "idle"]
    /\ path = [pc |-> "idle"]

NextLobe == SampleBSDFStep

SpecLobe == InitLobe /\ [][NextLobe]_vars

\* C20: for metallic and transmission in [0, 1] the three lobe weights are
\* each in [0, 1] and sum to exactly 1, every draw r in [0, 1) selects one
\* lobe, and the share of the draws that select a lobe is its weight.
C20_LobesPartitionUnitInterval ==
    lobe.pc # "idle" =>
        LET probs == lobeProbs(lobe.material)
            lobes == DOMAIN lobe.taken
        IN /\ \A l \in lobes : ~RatLess(probs[l], <<0, 1>>) /\ ~RatLess(<<1, 1>>, probs[l])
           /\ RatAdd(RatAdd(probs.diffuseProb, probs.specularProb),
                     probs.transmissionProb) = <<1, 1>>
           /\ lobe.taken.diffuseProb + lobe.taken.specularProb
                 + lobe.taken.transmissionProb = lobe.draw
           /\ lobe.pc = "done" =>
                 \A l \in lobes : Rat(lobe.taken[l], LobeSteps * LobeSteps) = probs[l]

\* all the draws made for a material with three lobes of positive weight
C20_Witness ==
    /\ lobe.pc = "done"
    /\ \A l \in DOMAIN lobe.taken : lobe.taken[l] > 0
    /\ lobe.material.metallic # lobe.material.transmission


-----------------------------------------------------------------------------
(* The scene worker.  onmessage is an async handler: it runs up to its     *)
(* await of loadGLTF, and the rest runs when the load settles, so the      *)
(* handlers of two requests can interleave.  A primitive is written as the *)
(* kind of its index buffer; the messages posted carry the request they    *)
(* answer, which the code's messages do not.                               *)

MaxRequests == 2

MaxPrimitives == 2

IndexKinds == {"Uint16Array", "Uint32Array", "undefined"}

\* a faulty buildTriangles: only a missing index buffer is refused
buildTrianglesThrowsLess(index) == index = "undefined"

\* buildTriangles: if (!index || index instanceof Uint32Array) throw
buildTrianglesThrows(index) == index = "undefined" \/ index = "Uint32Array"

RECURSIVE prepareScene(_, _)
\* prepareScene from primitive k on: the processNode calls push the
\* triangles of each primitive until buildTriangles throws; the catch
\* rethrows, and nothing is returned
prepareScene(primitives, k) ==
    IF k > Len(primitives) THEN [threw |-> FALSE, primitives |-> Len(primitives)]
    ELSE IF buildTrianglesThrows(primitives[k]) THEN [threw |-> TRUE, primitives |-> 0]
    ELSE prepareScene(primitives, k + 1)

\* faulty messages: the error is posted after the success as well
postResultAlwaysError(id, outcome) ==
    IF outcome.threw THEN <<[id |-> id, type |-> "error", data |-> 0]>>
    ELSE <<[id |-> id, type |-> "success", data |-> outcome.primitives],
           [id |-> id, type |-> "error", data |-> 0]>>

\* the end of the try block and the catch: one message
postResult(id, outcome) ==
    IF outcome.threw THEN <<[id |-> id, type |-> "error", data |-> 0]>>
    ELSE <<[id |-> id, type |-> "success", data |-> outcome.primitives]>>

\* the 'loading' message of the earlier variant of the worker
postLoading(id, variant) ==
    IF variant = "progress" THEN <<[id |-> id, type |-> "loading", data |-> 0]>> ELSE <<>>

PrimitiveLists == UNION {[1..n -> IndexKinds] : n \in 0..MaxPrimitives}

\* the models requested while other requests are in flight: one that is
\* prepared, one with 32-bit indices after an accepted primitive, one
\* without an index buffer
InterleavedModels ==
    {<<"Uint16Array">>, <<"Uint16Array", "Uint32Array">>, <<"undefined">>}

\* the worker is loaded; the requests are on their way
WorkerEntry(variant, gltfs) ==
    worker = [pc |-> "listening", variant |-> variant,
              requests |-> [id \in DOMAIN gltfs |-> [pc |-> "sent", gltf |-> gltfs[id]]],
              posted |-> <<>>]

\* self.onmessage up to the await of loadGLTF
WorkerOnMessage ==
    /\ worker.pc = "listening"
    /\ \E id \in DOMAIN worker.requests :
          /\ worker.requests[id].pc = "sent"
          /\ \A other \in DOMAIN worker.requests :
                other < id => worker.requests[other].pc # "sent"
          /\ worker' = [worker EXCEPT
                 !.requests[id].pc = "loadGLTF",
                 !.posted = @ \o postLoading(id, worker.variant)]
    /\ UNCHANGED sorter
    /\ UNCHANGED bvhVars
    /\ UNCHANGED traverseVars
    /\ UNCHANGED renderVars
    /\ UNCHANGED kernelVars

\* loadGLTF settles and the handler runs to its end
WorkerLoadSettles ==
    /\ worker.pc = "listening"
    /\ \E id \in DOMAIN worker.requests, loaded \in BOOLEAN :
          /\ worker.requests[id].pc = "loadGLTF"
          /\ worker' = [worker EXCEPT
                 !.requests[id].pc = IF loaded THEN "prepared" ELSE "load failed",
                 !.posted = @ \o
                     (IF loaded
                      THEN postLoading(id, worker.variant)
                           \o postResult(id, prepareScene(worker.requests[id].gltf, 1))
                      ELSE postResult(id, [threw |-> TRUE, primitives |-> 0]))]
    /\ UNCHANGED sorter
    /\ UNCHANGED bvhVars
    /\ UNCHANGED traverseVars
    /\ UNCHANGED renderVars
    /\ UNCHANGED kernelVars

InitWorker ==
    /\ BuildEntry(<<>>, DefaultOptions)
    /\ TraverseIdle
    /\ RendererConstructed
    /\ KernelIdle
    /\ \E variant \in {"progress", "plain"}, n \in 1..MaxRequests :
       \E gltfs \in [1..n -> IF n = 1 THEN PrimitiveLists ELSE InterleavedModels] :
          WorkerEntry(variant, gltfs)
    /\ sorter = [pc |-> "idle"]

NextWorker == WorkerOnMessage \/ WorkerLoadSettles

SpecWorker == InitWorker /\ [][NextWorker]_vars

\* the types of the messages posted for the request id, in order
PostedFor(id) ==
    LET mine == SelectSeq(worker.posted, LAMBDA m : m.id = id)
    IN [k \in DOMAIN mine |-> mine[k].type]

\* C21: when a primitive of the model has a 32-bit index buffer,
\* prepareScene throws and returns no scene, and the worker posts 'error'
\* and no 'success' for that request.
C21_Uint32FailsLoudly ==
    worker.pc = "listening" =>
        \A id \in DOMAIN worker.requests :
            (\E k \in DOMAIN worker.requests[id].gltf :
                worker.requests[id].gltf[k] = "Uint32Array") =>
                /\ prepareScene(worker.requests[id].gltf, 1) = [threw |-> TRUE, primitives |-> 0]
                /\ \A k \in DOMAIN PostedFor(id) : PostedFor(id)[k] # "success"
                /\ worker.requests[id].pc = "prepared" =>
                      PostedFor(id)[Len(PostedFor(id))] = "error"

\* a model was loaded whose second primitive has 32-bit indices, after a
\* first one that was accepted, and the worker has answered
C21_Witness ==
    /\ worker.pc = "listening"
    /\ \E id \in DOMAIN worker.requests :
          /\ worker.requests[id].gltf = <<"Uint16Array", "Uint32Array">>
          /\ worker.requests[id].pc = "prepared"
          /\ "error" \in {PostedFor(id)[k] : k \in DOMAIN PostedFor(id)}

\* C30: for each request the worker posts 'loading' messages and then one
\* terminal message, 'success' when loading and preparation complete and
\* 'error' when either throws; never both, and nothing after it.
C30_OneTerminalMessage ==
    worker.pc = "listening" =>
        \A id \in DOMAIN worker.requests :
            LET types == PostedFor(id)
                request == worker.requests[id]
                settled == request.pc \in {"prepared", "load failed"}
                completes == /\ request.pc = "prepared"
                             /\ ~prepareScene(request.gltf, 1).threw
            IN /\ \A k \in DOMAIN types : k < Len(types) => types[k] = "loading"
               /\ ~settled => \A k \in DOMAIN types : types[k] = "loading"
               /\ settled => /\ types # <<>>
                             /\ types[Len(types)] = (IF completes THEN "success" ELSE "error")

\* two requests whose handlers interleaved, one answered with 'success' and
\* one with 'error', in the variant that reports progress
C30_Witness ==
    /\ worker.pc = "listening"
    /\ worker.variant = "progress"
    /\ Len(worker.posted) = 6
    /\ worker.posted[1].id # worker.posted[2].id
    /\ \E k \in 1..6 : worker.posted[k].type = "success"
    /\ \E k \in 1..6 : worker.posted[k].type = "error"


-----------------------------------------------------------------------------
(* The three implementations of sortArrayPartially: the iterative one of   *)
(* utils/arr.ts (above), the recursive one, and the one with insertion     *)
(* sort for short ranges and a median-of-three pivot for long ones.  All   *)
(* three start with the same index check.                                  *)

MaxShortLen == 3

MaxSortLen == 12

RECURSIVE quickSort(_, _, _, _)
\* the recursive variant: quickSort(low, high)
quickSort(arr, low, high, compare) ==
    IF low < high
    THEN LET p == Partition(arr, low, high, compare)
         IN quickSort(quickSort(p.arr, low, p.pivotIndex - 1, compare),
                      p.pivotIndex + 1, high, compare)
    ELSE arr

RECURSIVE InsertionWhile(_, _, _, _, _)
\* the while loop of insertionSort: [arr, j]
InsertionWhile(arr, j, low, key, compare) ==
    IF j >= low /\ compare[<<arr[j + 1], key>>] > 0
    THEN InsertionWhile([arr EXCEPT ![j + 2] = arr[j + 1]], j - 1, low, key, compare)
    ELSE [arr |-> arr, j |-> j]

RECURSIVE insertionSortSkipsOne(_, _, _, _, _)
\* a faulty insertionSort: the element after low is never inserted
insertionSortSkipsOne(arr, i, low, high, compare) ==
    IF i > high THEN arr
    ELSE IF i = low + 1 THEN insertionSortSkipsOne(arr, i + 1, low, high, compare)
    ELSE LET w == InsertionWhile(arr, i - 1, low, arr[i + 1], compare)
         IN insertionSortSkipsOne([w.arr EXCEPT ![w.j + 2] = arr[i + 1]],
                                  i + 1, low, high, compare)

RECURSIVE insertionSort(_, _, _, _, _)
\* insertionSort(low, high), from the index i of its for loop on
insertionSort(arr, i, low, high, compare) ==
    IF i > high THEN arr
    ELSE LET w == InsertionWhile(arr, i - 1, low, arr[i + 1], compare)
         IN insertionSort([w.arr EXCEPT ![w.j + 2] = arr[i + 1]],
                          i + 1, low, high, compare)

\* medianOfThree(low, high): [arr, mid]
medianOfThree(arr, low, high, compare) ==
    LET mid == low + ((high - low) \div 2)
        a1 == IF compare[<<arr[low + 1], arr[mid + 1]>>] > 0 THEN Swap(arr, low, mid) ELSE arr
        a2 == IF compare[<<a1[mid + 1], a1[high + 1]>>] > 0
              THEN LET b == Swap(a1, mid, high)
                   IN IF compare[<<b[low + 1], b[mid + 1]>>] > 0 THEN Swap(b, low, mid) ELSE b
              ELSE a1
    IN [arr |-> a2, mid |-> mid]

\* partition of the third variant: the median moved to the end for ranges
\* of more than 11 elements, then the same loop (its swaps of an element
\* with itself are skipped in the code)
MedianPartition(arr, low, high, compare) ==
    IF high - low > 10
    THEN LET m == medianOfThree(arr, low, high, compare)
         IN Partition(Swap(m.arr, m.mid, high), low, high, compare)
    ELSE Partition(arr, low, high, compare)

RECURSIVE HybridLoop(_, _, _)
\* the while loop of the third variant over its stack of (low, high) pairs
HybridLoop(arr, lohi, compare) ==
    IF lohi = <<>> THEN arr
    ELSE
        LET high == lohi[Len(lohi)]
            low  == lohi[Len(lohi) - 1]
            rest == SubSeq(lohi, 1, Len(lohi) - 2)
        IN  IF high - low < 10
            THEN HybridLoop(insertionSort(arr, low + 1, low, high, compare), rest, compare)
            ELSE IF low < high
            THEN LET p == MedianPartition(arr, low, high, compare)
                     left == IF p.pivotIndex - 1 > low
                             THEN <<low, p.pivotIndex - 1>> ELSE <<>>
                     right == IF p.pivotIndex + 1 < high
                              THEN <<p.pivotIndex + 1, high>> ELSE <<>>
                 IN  IF p.pivotIndex - low < high - p.pivotIndex
                     THEN HybridLoop(p.arr, rest \o right \o left, compare)
                     ELSE HybridLoop(p.arr, rest \o left \o right, compare)
            ELSE HybridLoop(arr, rest, compare)

Implementations == {"iterative", "recursive", "median"}

\* one call: the index check, then the sort of the chosen implementation
sortCall(impl, arr, startIndex, endIndex, compare) ==
    IF InvalidIndices(arr, startIndex, endIndex)
    THEN [threw |-> TRUE, message |-> "Invalid indices", arr |-> arr]
    ELSE [threw |-> FALSE, message |-> "",
          arr |-> IF impl = "iterative" THEN sortArrayPartially(arr, startIndex, endIndex, compare)
                  ELSE IF impl = "recursive" THEN quickSort(arr, startIndex, endIndex - 1, compare)
                  ELSE HybridLoop(arr, <<startIndex, endIndex - 1>>, compare)]

\* (a, b) => a - b and (a, b) => b - a on the numbers 0..3
Comparators ==
    [ascending |-> [p \in (0..3) \X (0..3) |-> p[1] - p[2]],
     descending |-> [p \in (0..3) \X (0..3) |-> p[2] - p[1]]]

\* the calls the model makes: every short array over three values with
\* every pair of indices from -1 to one past the end, and the arrays of
\* two values of 11 and more elements, sorted whole or but for their ends
\* by the third implementation (the other two treat a range of every
\* length alike)
SortCalls ==
    {[arr |-> arr, start |-> startIndex, end |-> endIndex] :
        arr \in UNION {[1..n -> 1..3] : n \in 0..MaxShortLen},
        startIndex \in -1..(MaxShortLen + 1), endIndex \in -1..(MaxShortLen + 1)}
    \cup
    {[arr |-> arr, start |-> startIndex, end |-> Len(arr) - startIndex] :
        arr \in UNION {[1..n -> 1..2] : n \in (MaxSortLen - 1)..MaxSortLen},
        startIndex \in 0..1}

SorterEntry(impl, call, order) ==
    sorter = [pc |-> "call", impl |-> impl, order |-> order,
              start |-> call.start, end |-> call.end,
              before |-> call.arr, arr |-> call.arr, message |-> ""]

\* the call returns or throws
SortStep ==
    /\ sorter.pc = "call"
    /\ LET r == sortCall(sorter.impl, sorter.arr, sorter.start, sorter.end,
                         Comparators[sorter.order])
       IN sorter' = [sorter EXCEPT !.pc = IF r.threw THEN "thrown" ELSE "returned",
                                   !.arr = r.arr, !.message = r.message]
    /\ UNCHANGED worker
    /\ UNCHANGED bvhVars
    /\ UNCHANGED traverseVars
    /\ UNCHANGED renderVars
    /\ UNCHANGED kernelVars

InitSort ==
    /\ BuildEntry(<<>>, DefaultOptions)
    /\ TraverseIdle
    /\ RendererConstructed
    /\ KernelIdle
    /\ worker = [pc |-> "idle"]
    /\ \E impl \in Implementations, call \in SortCalls, order \in DOMAIN Comparators :
          /\ call.start <= Len(call.arr) + 1
          /\ call.end <= Len(call.arr) + 1
          /\ Len(call.arr) > MaxShortLen => (order = "ascending" /\ impl = "median")
          /\ SorterEntry(impl, call, order)

NextSort == SortStep

SpecSort == InitSort /\ [][NextSort]_vars

\* C22: for 0 <= start < end <= arr.length the call returns, the segment
\* [start, end) is a permutation of what it was and non-decreasing under
\* compare, the elements outside it are unchanged, and a range of one
\* element leaves the array unchanged; for each implementation.
C22_SegmentSorted ==
    (sorter.pc \in {"returned", "thrown"}
        /\ ~InvalidIndices(sorter.before, sorter.start, sorter.end)) =>
        LET a == sorter.before
            b == sorter.arr
            segment == (sorter.start + 1)..sorter.end
            compare == Comparators[sorter.order]
        IN /\ sorter.pc = "returned"
           /\ Len(b) = Len(a)
           /\ \A i \in DOMAIN a \ segment : b[i] = a[i]
           /\ \A i \in segment : i + 1 \in segment => compare[<<b[i], b[i + 1]>>] <= 0
           /\ \A v \in 0..3 : Cardinality({i \in segment : b[i] = v})
                               = Cardinality({i \in segment : a[i] = v})
           /\ sorter.end = sorter.start + 1 => b = a

\* the third implementation has sorted twelve elements that were out of
\* order, through its median-of-three partition
C22_Witness ==
    /\ sorter.pc = "returned"
    /\ sorter.impl = "median"
    /\ sorter.end - sorter.start = 12
    /\ sorter.arr # sorter.before

\* C23: the call throws 'Invalid indices' whenever start < 0, end >
\* arr.length or start >= end, and the array is then unchanged.
C23_InvalidIndicesThrow ==
    (sorter.pc \in {"returned", "thrown"}
        /\ (sorter.start < 0 \/ sorter.end > Len(sorter.before)
            \/ sorter.start >= sorter.end)) =>
        /\ sorter.pc = "thrown"
        /\ sorter.message = "Invalid indices"
        /\ sorter.arr = sorter.before

\* a call with start = end on an unsorted array has thrown
C23_Witness ==
    /\ sorter.pc = "thrown"
    /\ sorter.start = sorter.end
    /\ sorter.before = <<3, 1, 2>>

====
